---- MODULE Spec2Model ----
(***************************************************************************)
(* A model of the JHON parser and serializer of src/rust/src/lib.rs.      *)
(*                                                                         *)
(* A text is a sequence of characters; a character is its Unicode scalar   *)
(* value (a natural number), so that the byte-wise order of keys, the hex  *)
(* digits of \uXXXX and the character classes are computed as the code     *)
(* computes them.  Positions into a text are 0-based, as in the code.      *)
(***************************************************************************)
EXTENDS Integers, Sequences, FiniteSets, TLC

VARIABLES src, text, pc, parsed, out, indent, reparsed, stripped, restripped

vars == <<src, text, pc, parsed, out, indent, reparsed, stripped, restripped>>

(***************************************************************************)
(* Characters                                                              *)
(***************************************************************************)

\* The printable ASCII characters in code-point order, U+0020 .. U+007E.
AsciiTable ==
  <<" ", "!", "\"", "#", "$", "%", "&", "'", "(", ")", "*", "+", ",", "-", ".", "/",
    "0", "1", "2", "3", "4", "5", "6", "7", "8", "9", ":", ";", "<", "=", ">", "?",
    "@", "A", "B", "C", "D", "E", "F", "G", "H", "I", "J", "K", "L", "M", "N", "O",
    "P", "Q", "R", "S", "T", "U", "V", "W", "X", "Y", "Z", "[", "\\", "]", "^", "_",
    "GRAVE", "a", "b", "c", "d", "e", "f", "g", "h", "i", "j", "k", "l", "m", "n", "o",
    "p", "q", "r", "s", "t", "u", "v", "w", "x", "y", "z", "{", "|", "}", "~">>

\* The scalar value of a character written as a one-character string.
Ord(s) ==
  CASE s = "\t" -> 9
    [] s = "\n" -> 10
    [] s = "\r" -> 13
    [] s = "SOH" -> 1          \* U+0001, a control character without a short escape
    [] s = "BS" -> 8           \* U+0008
    [] s = "FF" -> 12          \* U+000C
    [] s = "NBSP" -> 160       \* U+00A0, white space outside ASCII
    [] s = "e-acute" -> 233    \* U+00E9, a letter outside ASCII
    [] OTHER -> 31 + (CHOOSE n \in 1..Len(AsciiTable) : AsciiTable[n] = s)

\* A text written as a tuple of one-character strings.
RECURSIVE TxtUpTo(_, _)
TxtUpTo(ss, n) == IF n = 0 THEN <<>> ELSE Append(TxtUpTo(ss, n - 1), Ord(ss[n]))

Txt(ss) == TxtUpTo(ss, Len(ss))

cTab == Ord("\t")
cNewline == Ord("\n")
cReturn == Ord("\r")
cBackspace == Ord("BS")
cFormFeed == Ord("FF")
cSpace == Ord(" ")
cDQuote == Ord("\"")
cSQuote == Ord("'")
cHash == Ord("#")
cStar == Ord("*")
cPlus == Ord("+")
cComma == Ord(",")
cMinus == Ord("-")
cDot == Ord(".")
cSlash == Ord("/")
cZero == Ord("0")
cNine == Ord("9")
cEquals == Ord("=")
cLBracket == Ord("[")
cBackslash == Ord("\\")
cRBracket == Ord("]")
cUnderscore == Ord("_")
cLBrace == Ord("{")
cRBrace == Ord("}")

\* char::is_ascii_digit
is_ascii_digit(c) == c >= cZero /\ c <= cNine

\* char::is_alphanumeric: the Unicode classes Alphabetic and N.  Of the
\* characters outside ASCII the model knows U+00E9 (a letter).
is_alphanumeric(c) ==
  \/ is_ascii_digit(c)
  \/ c >= Ord("A") /\ c <= Ord("Z")
  \/ c >= Ord("a") /\ c <= Ord("z")
  \/ c = Ord("e-acute")

\* char::is_whitespace: the Unicode property White_Space (below U+0100).
is_whitespace(c) == c \in {9, 10, 11, 12, 13, 32, 133, 160}

\* chars[i] of the code, for a 0-based i.
At(chars, i) == chars[i + 1]

\* chars[a..b] of the code: the characters at positions a .. b-1.
Slice(chars, a, b) == SubSeq(chars, a + 1, b)

Last(s) == s[Len(s)]

(***************************************************************************)
(* serde_json::Value                                                       *)
(***************************************************************************)

\* Every value is a record [t, x]: the variant and its payload.
NullV == [t |-> "Null", x |-> <<>>]
BoolV(b) == [t |-> "Bool", x |-> b]
StringV(s) == [t |-> "String", x |-> s]
ArrayV(a) == [t |-> "Array", x |-> a]
\* An Object holds its members as a sequence of <<key, value>> in insertion
\* order, the keys pairwise different.
ObjectV(m) == [t |-> "Object", x |-> m]

\* serde_json::Number.  kind is "int" (an i64 or u64) or "float" (an f64).
\* The value is the decimal neg ip.fp: ip are the digits of the integer
\* part without leading zeros, fp the digits of the fraction without
\* trailing zeros; zero is <<>>.<<>> with neg = FALSE (0.0 == -0.0).
NumberV(kind, neg, ip, fp) ==
  [t |-> "Number", x |-> [kind |-> kind, neg |-> neg, ip |-> ip, fp |-> fp]]

\* Map::new
MapNew == <<>>

\* A variant of Map::insert that keeps the value of a key already present.
MapInsertKeepFirst(m, key, value) ==
  IF \E n \in 1..Len(m) : m[n][1] = key THEN m ELSE Append(m, <<key, value>>)

\* Map::insert: the value of a key already present is replaced.
MapInsert(m, key, value) ==
  IF \E n \in 1..Len(m) : m[n][1] = key
    THEN LET at == CHOOSE n \in 1..Len(m) : m[n][1] = key
         IN SubSeq(m, 1, at - 1) \o <<<<key, value>>>> \o SubSeq(m, at + 1, Len(m))
    ELSE Append(m, <<key, value>>)

\* Ord for String: the byte-wise lexicographic order, which on UTF-8 is the
\* lexicographic order of the scalar values.
RECURSIVE StrLess(_, _)
StrLess(a, b) ==
  IF b = <<>> THEN FALSE
  ELSE IF a = <<>> THEN TRUE
  ELSE IF Head(a) # Head(b) THEN Head(a) < Head(b)
  ELSE StrLess(Tail(a), Tail(b))

\* A variant of SortedByKey that keeps the insertion order (the members are
\* not collected into a BTreeMap).
SortedByKeyUnsorted(m) == m

\* The members of a map in ascending key order: what collecting the map's
\* iterator into a BTreeMap<&String, &Value> and iterating that gives.
RECURSIVE SortedByKey(_)
SortedByKey(m) ==
  IF m = <<>> THEN <<>>
  ELSE LET least == CHOOSE n \in 1..Len(m) :
                      \A j \in 1..Len(m) : j = n \/ StrLess(m[n][1], m[j][1])
           rest == [j \in 1..(Len(m) - 1) |-> IF j < least THEN m[j] ELSE m[j + 1]]
       IN <<m[least]>> \o SortedByKey(rest)

\* PartialEq for Value: maps are equal when they hold the same keys with
\* equal values, arrays when they are equal element by element.
RECURSIVE Canon(_)
Canon(v) ==
  CASE v.t = "Object" ->
         LET s == SortedByKey(v.x)
         IN ObjectV([n \in 1..Len(s) |-> <<s[n][1], Canon(s[n][2])>>])
    [] v.t = "Array" -> ArrayV([n \in 1..Len(v.x) |-> Canon(v.x[n])])
    [] OTHER -> v

ValueEq(a, b) == Canon(a) = Canon(b)

(***************************************************************************)
(* Results                                                                 *)
(***************************************************************************)

\* Result<(Value, usize)> of the parse_* routines: Ok((v, i)), Err(e), or
\* a panic (a failed assert!, an index out of bounds).
OkAt(v, i) == [k |-> "Ok", v |-> v, i |-> i, e |-> ""]
ErrAt(e) == [k |-> "Err", v |-> NullV, i |-> 0, e |-> e]
PanicAt(e) == [k |-> "Panic", v |-> NullV, i |-> 0, e |-> e]

\* Result<Value> of parse.
Ok(v) == [k |-> "Ok", v |-> v, e |-> ""]
Err(e) == [k |-> "Err", v |-> NullV, e |-> e]
Panic(e) == [k |-> "Panic", v |-> NullV, e |-> e]
NoResult == [k |-> "None", v |-> NullV, e |-> ""]

(***************************************************************************)
(* remove_comments                                                         *)
(***************************************************************************)

\* The position of the newline that ends a line comment whose text starts
\* at i, or the length of the input.
RECURSIVE LineCommentEnd(_, _)
LineCommentEnd(chars, i) ==
  IF i >= Len(chars) \/ At(chars, i) = cNewline THEN i
  ELSE LineCommentEnd(chars, i + 1)

RECURSIVE BlockCommentEnd(_, _)

\* A variant of BlockCommentEnd that leaves the '/' of the terminator in the
\* input.
BlockCommentEndBeforeSlash(chars, i) ==
  IF i >= Len(chars) THEN -1
  ELSE IF At(chars, i) = cStar
    THEN IF i + 1 < Len(chars) /\ At(chars, i + 1) = cSlash
           THEN i + 1
           ELSE BlockCommentEnd(chars, i + 1)
    ELSE BlockCommentEnd(chars, i + 1)

\* The position after the terminator of a block comment whose text starts
\* at i, or -1 when the input ends first (found_end stays false).
BlockCommentEnd(chars, i) ==
  IF i >= Len(chars) THEN -1
  ELSE IF At(chars, i) = cStar
    THEN IF i + 1 < Len(chars) /\ At(chars, i + 1) = cSlash
           THEN i + 2
           ELSE BlockCommentEnd(chars, i + 1)
    ELSE BlockCommentEnd(chars, i + 1)

RECURSIVE remove_comments_loop(_, _, _)

\* A variant of the loop of remove_comments that pushes a '/' before it
\* looks at the character after it.
remove_comments_loop_keep_slash(chars, i, result) ==
  IF i >= Len(chars) THEN result
  ELSE
    LET c == At(chars, i) IN
    IF c # cSlash \/ i + 1 >= Len(chars)
      THEN remove_comments_loop(chars, i + 1, Append(result, c))
    ELSE IF At(chars, i + 1) = cSlash
      THEN remove_comments_loop(chars, LineCommentEnd(chars, i + 2), Append(result, c))
    ELSE IF At(chars, i + 1) = cStar
      THEN LET end == BlockCommentEnd(chars, i + 2) IN
           IF end >= 0 THEN remove_comments_loop(chars, end, Append(result, c))
           ELSE result \o <<cSlash, cStar>>
    ELSE remove_comments_loop(chars, i + 1, Append(result, c))

\* The while loop of remove_comments: i is the position of the iterator,
\* result the text pushed so far.
remove_comments_loop(chars, i, result) ==
  IF i >= Len(chars) THEN result
  ELSE
    LET c == At(chars, i) IN
    IF c # cSlash THEN remove_comments_loop(chars, i + 1, Append(result, c))
    ELSE IF i + 1 >= Len(chars) THEN remove_comments_loop(chars, i + 1, Append(result, c))
    ELSE IF At(chars, i + 1) = cSlash
      THEN remove_comments_loop(chars, LineCommentEnd(chars, i + 2), result)
    ELSE IF At(chars, i + 1) = cStar
      THEN LET end == BlockCommentEnd(chars, i + 2) IN
           IF end >= 0 THEN remove_comments_loop(chars, end, result)
           \* every character up to the end of input was consumed by the search
           ELSE result \o <<cSlash, cStar>>
    ELSE remove_comments_loop(chars, i + 1, Append(result, c))

remove_comments(input) == remove_comments_loop(input, 0, <<>>)

\* str::trim: without leading and trailing white space.
RECURSIVE TrimStart(_)
TrimStart(s) == IF s # <<>> /\ is_whitespace(Head(s)) THEN TrimStart(Tail(s)) ELSE s

RECURSIVE TrimEnd(_)
TrimEnd(s) ==
  IF s # <<>> /\ is_whitespace(Last(s)) THEN TrimEnd(SubSeq(s, 1, Len(s) - 1)) ELSE s

Trim(s) == TrimEnd(TrimStart(s))

(***************************************************************************)
(* The scanner                                                             *)
(***************************************************************************)

\* A variant of skip_separators that skips newlines only.
RECURSIVE skip_separators_newlines_only(_, _)
skip_separators_newlines_only(chars, i) ==
  IF i < Len(chars) /\ At(chars, i) = cNewline
    THEN skip_separators_newlines_only(chars, i + 1)
    ELSE i

\* while i < chars.len() && (chars[i] == '\n' || chars[i] == ',') { i += 1 }
RECURSIVE skip_separators(_, _)
skip_separators(chars, i) ==
  IF i < Len(chars) /\ (At(chars, i) = cNewline \/ At(chars, i) = cComma)
    THEN skip_separators(chars, i + 1)
    ELSE i

\* while i < chars.len() && (chars[i] == ' ' || chars[i] == '\t') { i += 1 }
RECURSIVE skip_spaces_tabs(_, _)
skip_spaces_tabs(chars, i) ==
  IF i < Len(chars) /\ (At(chars, i) = cSpace \/ At(chars, i) = cTab)
    THEN skip_spaces_tabs(chars, i + 1)
    ELSE i

\* while i < chars.len() && chars[i].is_whitespace() { i += 1 }
RECURSIVE skip_whitespace(_, _)
skip_whitespace(chars, i) ==
  IF i < Len(chars) /\ is_whitespace(At(chars, i))
    THEN skip_whitespace(chars, i + 1)
    ELSE i

\* while i < chars.len() && chars[i].is_ascii_digit() { i += 1 }
RECURSIVE skip_digits(_, _)
skip_digits(chars, i) ==
  IF i < Len(chars) /\ is_ascii_digit(At(chars, i))
    THEN skip_digits(chars, i + 1)
    ELSE i

(***************************************************************************)
(* Escapes                                                                 *)
(***************************************************************************)

\* The value of a hexadecimal digit, or -1.
HexValue(c) ==
  IF is_ascii_digit(c) THEN c - cZero
  ELSE IF c >= Ord("a") /\ c <= Ord("f") THEN c - Ord("a") + 10
  ELSE IF c >= Ord("A") /\ c <= Ord("F") THEN c - Ord("A") + 10
  ELSE -1

RECURSIVE HexDigitsValue(_, _)
HexDigitsValue(ds, acc) ==
  IF ds = <<>> THEN acc
  ELSE IF acc < 0 \/ HexValue(Head(ds)) < 0 THEN -1
  ELSE HexDigitsValue(Tail(ds), 16 * acc + HexValue(Head(ds)))

\* u16::from_str_radix(s, 16): the value, or -1 for Err.  One leading '+'
\* is a sign; an empty digit string and any other character are errors.
u16_from_str_radix(s) ==
  LET digits == IF s # <<>> /\ Head(s) = cPlus THEN Tail(s) ELSE s IN
  IF digits = <<>> THEN -1
  ELSE LET n == HexDigitsValue(digits, 0) IN IF n > 65535 THEN -1 ELSE n

\* char::from_u32 is None for the surrogates U+D800 .. U+DFFF.
char_from_u32_is_some(code) == ~(code >= 55296 /\ code <= 57343)

(***************************************************************************)
(* Keys and strings                                                        *)
(***************************************************************************)

\* A variant of escape_push that drops the backslash of an unknown escape.
escape_push_drops_backslash(c) ==
  CASE c = Ord("n") -> <<cNewline>>
    [] c = Ord("r") -> <<cReturn>>
    [] c = Ord("t") -> <<cTab>>
    [] c = Ord("b") -> <<cBackspace>>
    [] c = Ord("f") -> <<cFormFeed>>
    [] c = cBackslash -> <<cBackslash>>
    [] OTHER -> <<c>>

\* What an escape other than \u pushes: the match on chars[i] after a '\'.
escape_push(c) ==
  CASE c = Ord("n") -> <<cNewline>>
    [] c = Ord("r") -> <<cReturn>>
    [] c = Ord("t") -> <<cTab>>
    [] c = Ord("b") -> <<cBackspace>>
    [] c = Ord("f") -> <<cFormFeed>>
    [] c = cBackslash -> <<cBackslash>>
    [] c = cDQuote \/ c = cSQuote -> <<c>>
    [] OTHER -> <<cBackslash, c>>       \* unknown escape, treated as literal

\* The while loop of the quoted branch of parse_key; i is past the opening
\* quote, key the characters pushed so far.
RECURSIVE parse_key_quoted(_, _, _, _)
parse_key_quoted(chars, i, quote_char, key) ==
  IF i >= Len(chars) THEN ErrAt("Unterminated string in key")
  ELSE IF At(chars, i) = quote_char THEN OkAt(key, i + 1)
  ELSE IF At(chars, i) = cBackslash
    THEN IF i + 1 < Len(chars)
           THEN LET c == At(chars, i + 1) IN
                IF c = Ord("u")
                  THEN IF (i + 2) + 3 >= Len(chars)
                         THEN ErrAt("Incomplete Unicode escape sequence")
                         ELSE LET code_point == u16_from_str_radix(Slice(chars, i + 2, i + 6)) IN
                              IF code_point < 0
                                THEN ErrAt("Invalid Unicode escape sequence")
                              ELSE IF ~char_from_u32_is_some(code_point)
                                THEN ErrAt("Invalid Unicode code point")
                              ELSE parse_key_quoted(chars, i + 6, quote_char,
                                                    Append(key, code_point))
                  ELSE parse_key_quoted(chars, i + 2, quote_char, key \o escape_push(c))
           ELSE parse_key_quoted(chars, i + 1, quote_char, key)
    ELSE parse_key_quoted(chars, i + 1, quote_char, Append(key, At(chars, i)))

\* while i < chars.len() && (alphanumeric || '_' || '-') { i += 1 }
RECURSIVE skip_key_chars(_, _)
skip_key_chars(chars, i) ==
  IF i < Len(chars)
     /\ (is_alphanumeric(At(chars, i)) \/ At(chars, i) = cUnderscore \/ At(chars, i) = cMinus)
    THEN skip_key_chars(chars, i + 1)
    ELSE i

\* A variant of parse_key that returns the empty key where no key character
\* stands, instead of the error.
parse_key_allows_empty(chars, i0) ==
  LET i == skip_whitespace(chars, i0) IN
  IF i >= Len(chars) THEN ErrAt("Expected key")
  ELSE IF At(chars, i) = cDQuote \/ At(chars, i) = cSQuote
    THEN parse_key_quoted(chars, i + 1, At(chars, i), <<>>)
    ELSE OkAt(Slice(chars, i, skip_key_chars(chars, i)), skip_key_chars(chars, i))

\* parse_key: Ok((key, i)) holds the key's characters in v.
parse_key(chars, i0) ==
  LET i == skip_whitespace(chars, i0) IN
  IF i >= Len(chars) THEN ErrAt("Expected key")
  ELSE IF At(chars, i) = cDQuote \/ At(chars, i) = cSQuote
    THEN parse_key_quoted(chars, i + 1, At(chars, i), <<>>)
    ELSE LET end == skip_key_chars(chars, i)
             key == Slice(chars, i, end) IN
         IF key = <<>> THEN ErrAt("Empty key") ELSE OkAt(key, end)

\* The while loop of parse_string_value.
RECURSIVE parse_string_loop(_, _, _, _)
parse_string_loop(chars, i, quote_char, result) ==
  IF i >= Len(chars) THEN ErrAt("Unterminated string")
  ELSE IF At(chars, i) = quote_char THEN OkAt(StringV(result), i + 1)
  ELSE IF At(chars, i) = cBackslash
    THEN IF i + 1 < Len(chars)
           THEN LET c == At(chars, i + 1) IN
                IF c = Ord("u")
                  THEN IF (i + 2) + 3 >= Len(chars)
                         THEN ErrAt("Incomplete Unicode escape sequence")
                         ELSE LET code_point == u16_from_str_radix(Slice(chars, i + 2, i + 6)) IN
                              IF code_point < 0
                                THEN ErrAt("Invalid Unicode escape sequence")
                              ELSE IF ~char_from_u32_is_some(code_point)
                                THEN ErrAt("Invalid Unicode code point")
                              ELSE parse_string_loop(chars, i + 6, quote_char,
                                                     Append(result, code_point))
                  ELSE parse_string_loop(chars, i + 2, quote_char, result \o escape_push(c))
           ELSE parse_string_loop(chars, i + 1, quote_char, result)
    ELSE parse_string_loop(chars, i + 1, quote_char, Append(result, At(chars, i)))

parse_string_value(chars, i) ==
  IF i >= Len(chars) THEN PanicAt("index out of bounds")
  ELSE IF ~(At(chars, i) = cDQuote \/ At(chars, i) = cSQuote) THEN PanicAt("assertion failed")
  ELSE parse_string_loop(chars, i + 1, At(chars, i), <<>>)

(***************************************************************************)
(* Raw strings                                                             *)
(***************************************************************************)

\* while i < chars.len() && chars[i] == '#' { hash_count += 1; i += 1 }
RECURSIVE skip_hashes(_, _)
skip_hashes(chars, i) ==
  IF i < Len(chars) /\ At(chars, i) = cHash THEN skip_hashes(chars, i + 1) ELSE i

\* A variant of is_closing that does not look at the hashes.
is_closing_any_quote(chars, i, hash_count) == TRUE

\* for j in 1..=hash_count { if chars[i + j] != '#' { is_closing = false } }
is_closing(chars, i, hash_count) ==
  \A j \in 1..hash_count : At(chars, i + j) = cHash

\* The search for the closing marker: start is the position after the
\* opening quote, i the position examined.
RECURSIVE parse_raw_string_loop(_, _, _, _)
parse_raw_string_loop(chars, start, i, hash_count) ==
  IF i >= Len(chars) THEN ErrAt("Unterminated raw string")
  ELSE IF At(chars, i) = cDQuote
          /\ i + hash_count < Len(chars)
          /\ is_closing(chars, i, hash_count)
    THEN OkAt(StringV(Slice(chars, start, i)), i + hash_count + 1)
    ELSE parse_raw_string_loop(chars, start, i + 1, hash_count)

parse_raw_string_value(chars, i0) ==
  IF i0 >= Len(chars) THEN PanicAt("index out of bounds")
  ELSE IF ~(At(chars, i0) = Ord("r") \/ At(chars, i0) = Ord("R")) THEN PanicAt("assertion failed")
  ELSE IF i0 + 1 >= Len(chars) THEN ErrAt("Unexpected end of input in raw string")
  ELSE LET i == skip_hashes(chars, i0 + 1)
           hash_count == i - (i0 + 1) IN
       IF i >= Len(chars) \/ At(chars, i) # cDQuote
         THEN ErrAt("Expected opening quote after r and # symbols in raw string")
         ELSE parse_raw_string_loop(chars, i + 1, i + 1, hash_count)

(***************************************************************************)
(* Numbers, booleans, null                                                 *)
(***************************************************************************)

RECURSIVE StripLeadingZeros(_)
StripLeadingZeros(ds) ==
  IF ds # <<>> /\ Head(ds) = cZero THEN StripLeadingZeros(Tail(ds)) ELSE ds

RECURSIVE StripTrailingZeros(_)
StripTrailingZeros(ds) ==
  IF ds # <<>> /\ Last(ds) = cZero THEN StripTrailingZeros(SubSeq(ds, 1, Len(ds) - 1)) ELSE ds

\* A variant of FloatOf that stores a literal without fraction as an integer.
FloatOfKeepsIntegers(neg, int_digits, frac_digits) ==
  LET ip == StripLeadingZeros(int_digits)
      fp == StripTrailingZeros(frac_digits) IN
  NumberV(IF frac_digits = <<>> THEN "int" ELSE "float",
          neg /\ ~(ip = <<>> /\ fp = <<>>), ip, fp)

\* Number::from_f64(s.parse::<f64>()) for a literal -?digits(.digits)?: the
\* float of that decimal value.  (The model keeps the decimal digits: it is
\* exact for literals of at most 15 significant digits, and it does not
\* reach literals so long that the f64 is infinite.)
FloatOf(neg, int_digits, frac_digits) ==
  LET ip == StripLeadingZeros(int_digits)
      fp == StripTrailingZeros(frac_digits) IN
  NumberV("float", neg /\ ~(ip = <<>> /\ fp = <<>>), ip, fp)

parse_number(chars, start) ==
  LET neg == start < Len(chars) /\ At(chars, start) = cMinus
      i1 == IF neg THEN start + 1 ELSE start
      i2 == skip_digits(chars, i1)
      has_digits == i2 > i1 IN
  IF ~has_digits THEN ErrAt("Invalid number")
  ELSE IF i2 < Len(chars) /\ At(chars, i2) = cDot
    THEN LET i3 == skip_digits(chars, i2 + 1)
             has_decimal_digits == i3 > i2 + 1 IN
         IF ~has_decimal_digits THEN ErrAt("Invalid decimal number")
         ELSE OkAt(FloatOf(neg, Slice(chars, i1, i2), Slice(chars, i2 + 1, i3)), i3)
    ELSE OkAt(FloatOf(neg, Slice(chars, i1, i2), <<>>), i2)

parse_boolean(chars, i) ==
  IF i + 3 < Len(chars)
     /\ At(chars, i) = Ord("t") /\ At(chars, i + 1) = Ord("r")
     /\ At(chars, i + 2) = Ord("u") /\ At(chars, i + 3) = Ord("e")
    THEN OkAt(BoolV(TRUE), i + 4)
  ELSE IF i + 4 < Len(chars)
     /\ At(chars, i) = Ord("f") /\ At(chars, i + 1) = Ord("a")
     /\ At(chars, i + 2) = Ord("l") /\ At(chars, i + 3) = Ord("s")
     /\ At(chars, i + 4) = Ord("e")
    THEN OkAt(BoolV(FALSE), i + 5)
  ELSE ErrAt("Invalid boolean value")

\* A variant of parse_null without the test of the length: the look-ahead
\* reads chars[i + 1] .. chars[i + 3] as long as the characters match, and an
\* index past the end panics.
parse_null_unchecked(chars, i) ==
  IF \E n \in 0..3 :
       /\ i + n >= Len(chars)
       /\ \A m \in 0..(n - 1) : At(chars, i + m) = Txt(<<"n", "u", "l", "l">>)[m + 1]
    THEN PanicAt("index out of bounds")
  ELSE IF Slice(chars, i, i + 4) = Txt(<<"n", "u", "l", "l">>)
    THEN OkAt(NullV, i + 4)
    ELSE ErrAt("Invalid null value")

parse_null(chars, i) ==
  IF i + 3 < Len(chars)
     /\ At(chars, i) = Ord("n") /\ At(chars, i + 1) = Ord("u")
     /\ At(chars, i + 2) = Ord("l") /\ At(chars, i + 3) = Ord("l")
    THEN OkAt(NullV, i + 4)
    ELSE ErrAt("Invalid null value")

(***************************************************************************)
(* Values, arrays and objects                                              *)
(***************************************************************************)

\* A variant of missing_equals without the test for the end of input.
missing_equals_unless_at_end(chars, i) == i < Len(chars) /\ At(chars, i) # cEquals

\* if i >= chars.len() || chars[i] != '=' { return Err(..) }
missing_equals(chars, i) == i >= Len(chars) \/ At(chars, i) # cEquals

RECURSIVE parse_value(_, _)
RECURSIVE parse_array_loop(_, _, _)
RECURSIVE parse_nested_object_loop(_, _, _)

\* A variant of the end of an iteration of parse_array that wants a comma or
\* a newline after an element: a space or a tab there is an error.
parse_array_push_wants_separator(chars, elements, element) ==
  IF element.k # "Ok" THEN element
  ELSE IF element.i < Len(chars) /\ At(chars, element.i) \in {cSpace, cTab}
    THEN ErrAt("Expected separator")
  ELSE parse_array_loop(chars, element.i, Append(elements, element.v))

\* The end of an iteration of parse_array: the element read is pushed, or
\* its error returned ('?').
parse_array_push(chars, elements, element) ==
  IF element.k # "Ok" THEN element
  ELSE parse_array_loop(chars, element.i, Append(elements, element.v))

\* The while loop of parse_array.
parse_array_loop(chars, i0, elements) ==
  IF i0 >= Len(chars) THEN ErrAt("Unterminated array")
  ELSE
    LET i == skip_spaces_tabs(chars, skip_separators(chars, i0)) IN
    IF i >= Len(chars) THEN ErrAt("Unterminated array")
    ELSE IF At(chars, i) = cRBracket THEN OkAt(ArrayV(elements), i + 1)
    ELSE parse_array_push(chars, elements, parse_value(chars, i))

parse_array(chars, i) ==
  IF i >= Len(chars) THEN PanicAt("index out of bounds")
  ELSE IF At(chars, i) # cLBracket THEN PanicAt("assertion failed")
  ELSE parse_array_loop(chars, i + 1, <<>>)

\* The end of an iteration of parse_nested_object: map.insert(key, value),
\* or the error of the value.
parse_nested_object_insert(chars, map, key, value) ==
  IF value.k # "Ok" THEN value
  ELSE parse_nested_object_loop(chars, value.i, MapInsert(map, key, value.v))

\* An iteration of parse_nested_object after its key is read: the '=' and
\* the value.
parse_nested_object_pair(chars, map, key) ==
  IF key.k # "Ok" THEN key
  ELSE LET ie == skip_whitespace(chars, key.i) IN
       IF missing_equals(chars, ie)
         THEN ErrAt("Expected '=' after key in nested object")
         ELSE parse_nested_object_insert(chars, map, key.v,
                parse_value(chars, skip_whitespace(chars, ie + 1)))

\* The while loop of parse_nested_object.
parse_nested_object_loop(chars, i0, map) ==
  IF i0 >= Len(chars) THEN ErrAt("Unterminated nested object")
  ELSE
    LET i == skip_spaces_tabs(chars, skip_separators(chars, i0)) IN
    IF i >= Len(chars) THEN ErrAt("Unterminated nested object")
    ELSE IF At(chars, i) = cRBrace THEN OkAt(ObjectV(map), i + 1)
    ELSE parse_nested_object_pair(chars, map, parse_key(chars, i))

parse_nested_object(chars, i) ==
  IF i >= Len(chars) THEN PanicAt("index out of bounds")
  ELSE IF At(chars, i) # cLBrace THEN PanicAt("assertion failed")
  ELSE parse_nested_object_loop(chars, i + 1, MapNew)

parse_value(chars, i0) ==
  LET i == skip_whitespace(chars, i0) IN
  IF i >= Len(chars) THEN ErrAt("Expected value")
  ELSE LET c == At(chars, i) IN
       IF c = cDQuote \/ c = cSQuote THEN parse_string_value(chars, i)
       ELSE IF c = Ord("r") \/ c = Ord("R") THEN parse_raw_string_value(chars, i)
       ELSE IF c = cLBracket THEN parse_array(chars, i)
       ELSE IF c = cLBrace THEN parse_nested_object(chars, i)
       ELSE IF is_ascii_digit(c) \/ c = cMinus THEN parse_number(chars, i)
       ELSE IF c = Ord("t") \/ c = Ord("f") THEN parse_boolean(chars, i)
       ELSE IF c = Ord("n") THEN parse_null(chars, i)
       ELSE ErrAt("Unexpected character in value")

RECURSIVE parse_jhon_object_loop(_, _, _)

\* A variant of the end of an iteration of parse_jhon_object that leaves
\* the loop when the value failed to parse, and returns the pairs read so
\* far.
parse_jhon_object_insert_break_on_error(chars, map, key, value) ==
  IF value.k # "Ok" THEN Ok(ObjectV(map))
  ELSE parse_jhon_object_loop(chars, value.i, MapInsert(map, key, value.v))

\* The end of an iteration of parse_jhon_object: map.insert(key, value), or
\* the error of the value.
parse_jhon_object_insert(chars, map, key, value) ==
  IF value.k = "Err" THEN Err(value.e)
  ELSE IF value.k = "Panic" THEN Panic(value.e)
  ELSE parse_jhon_object_loop(chars, value.i, MapInsert(map, key, value.v))

\* An iteration of parse_jhon_object after its key is read: the '=' and the
\* value.
parse_jhon_object_pair(chars, map, key) ==
  IF key.k = "Err" THEN Err(key.e)
  ELSE IF key.k = "Panic" THEN Panic(key.e)
  ELSE LET ie == skip_whitespace(chars, key.i) IN
       IF missing_equals(chars, ie)
         THEN Err("Expected '=' after key")
         ELSE parse_jhon_object_insert(chars, map, key.v,
                parse_value(chars, skip_whitespace(chars, ie + 1)))

\* The while loop of parse_jhon_object.
parse_jhon_object_loop(chars, i0, map) ==
  IF i0 >= Len(chars) THEN Ok(ObjectV(map))
  ELSE
    LET i == skip_spaces_tabs(chars, skip_separators(chars, i0)) IN
    IF i >= Len(chars) THEN Ok(ObjectV(map))
    ELSE parse_jhon_object_pair(chars, map, parse_key(chars, i))

parse_jhon_object(input) == parse_jhon_object_loop(input, 0, MapNew)

\* The result of parse on the braced path: the value of parse_nested_object
\* without its end position.
parse_braced(r) ==
  IF r.k = "Ok" THEN Ok(r.v)
  ELSE IF r.k = "Err" THEN Err(r.e)
  ELSE Panic(r.e)

\* parse after the comments are removed and the input trimmed.
parse_trimmed(input) ==
  IF input = <<>> THEN Ok(ObjectV(MapNew))
  ELSE IF Head(input) = cLBrace /\ Last(input) = cRBrace
    THEN parse_braced(parse_nested_object(input, 0))
    ELSE parse_jhon_object(input)

parse(t) == parse_trimmed(Trim(remove_comments(t)))

(***************************************************************************)
(* The serializer                                                          *)
(***************************************************************************)

\* parts.join(sep)
RECURSIVE Join(_, _)
Join(parts, sep) ==
  IF parts = <<>> THEN <<>>
  ELSE IF Len(parts) = 1 THEN parts[1]
  ELSE parts[1] \o sep \o Join(Tail(parts), sep)

\* The lower-case hexadecimal digit of a value 0 .. 15.
HexDigit(n) == IF n < 10 THEN cZero + n ELSE Ord("a") + (n - 10)

\* format!("\\u{:04x}", c as u32), for a c below U+10000.
UnicodeEscape(c) ==
  <<cBackslash, Ord("u"), HexDigit(c \div 4096), HexDigit((c \div 256) % 16),
    HexDigit((c \div 16) % 16), HexDigit(c % 16)>>

\* The match on c of serialize_string.
escape_char(c) ==
  CASE c = cBackslash -> <<cBackslash, cBackslash>>
    [] c = cDQuote -> <<cBackslash, cDQuote>>
    [] c = cNewline -> <<cBackslash, Ord("n")>>
    [] c = cReturn -> <<cBackslash, Ord("r")>>
    [] c = cTab -> <<cBackslash, Ord("t")>>
    [] c = cBackspace -> <<cBackslash, Ord("b")>>
    [] c = cFormFeed -> <<cBackslash, Ord("f")>>
    [] OTHER -> IF c < cSpace THEN UnicodeEscape(c) ELSE <<c>>

RECURSIVE escape_chars(_)
escape_chars(s) == IF s = <<>> THEN <<>> ELSE escape_char(Head(s)) \o escape_chars(Tail(s))

serialize_string(s) == <<cDQuote>> \o escape_chars(s) \o <<cDQuote>>

\* A variant of needs_quoting without the test for the empty key.
needs_quoting_nonempty(s) ==
  \E n \in 1..Len(s) : ~is_alphanumeric(s[n]) /\ s[n] # cUnderscore /\ s[n] # cMinus

needs_quoting(s) ==
  \/ s = <<>>
  \/ \E n \in 1..Len(s) : ~is_alphanumeric(s[n]) /\ s[n] # cUnderscore /\ s[n] # cMinus

serialize_key(key) == IF needs_quoting(key) THEN serialize_string(key) ELSE key

\* The decimal digits of 2^63, the magnitude of i64::MIN.
TwoPow63 == Txt(<<"9", "2", "2", "3", "3", "7", "2", "0", "3", "6", "8", "5", "4", "7", "7",
                  "5", "8", "0", "8">>)

\* The decimal digits of i64::MAX.
I64Max == Txt(<<"9", "2", "2", "3", "3", "7", "2", "0", "3", "6", "8", "5", "4", "7", "7",
                "5", "8", "0", "7">>)

\* a >= b for two digit strings without leading zeros.
DigitsGE(a, b) ==
  \/ Len(a) > Len(b)
  \/ Len(a) = Len(b) /\ ~StrLess(a, b)

\* format!("{}", f as i64) for a float f without fraction: the cast
\* saturates at i64::MIN and i64::MAX.
WholeFloatText(n) ==
  IF DigitsGE(n.ip, TwoPow63)
    THEN IF n.neg THEN <<cMinus>> \o TwoPow63 ELSE I64Max
    ELSE (IF n.neg THEN <<cMinus>> ELSE <<>>) \o (IF n.ip = <<>> THEN <<cZero>> ELSE n.ip)

serialize_number(n) ==
  IF n.kind = "int"
    THEN (IF n.neg THEN <<cMinus>> ELSE <<>>) \o (IF n.ip = <<>> THEN <<cZero>> ELSE n.ip)
  ELSE IF n.fp = <<>>                                   \* f.fract() == 0.0
    THEN WholeFloatText(n)
    ELSE (IF n.neg THEN <<cMinus>> ELSE <<>>)           \* format!("{}", f)
         \o (IF n.ip = <<>> THEN <<cZero>> ELSE n.ip) \o <<cDot>> \o n.fp

BoolText(b) == IF b THEN Txt(<<"t", "r", "u", "e">>) ELSE Txt(<<"f", "a", "l", "s", "e">>)

NullText == Txt(<<"n", "u", "l", "l">>)

RECURSIVE serialize(_)
RECURSIVE serialize_object(_)
RECURSIVE serialize_array(_)

\* A variant of serialize_nested that renders an empty object as serialize
\* renders it at the root.
serialize_nested_empty_bare(value) ==
  IF value.t = "Object"
    THEN IF value.x = <<>>
           THEN <<>>
           ELSE <<cLBrace>> \o serialize_object(value.x) \o <<cRBrace>>
    ELSE serialize(value)

\* The value of a member or an element: an object gets its braces here.
serialize_nested(value) ==
  IF value.t = "Object"
    THEN IF value.x = <<>>
           THEN <<cLBrace, cRBrace>>
           ELSE <<cLBrace>> \o serialize_object(value.x) \o <<cRBrace>>
    ELSE serialize(value)

serialize_object(map) ==
  LET sorted == SortedByKey(map)
      parts == [n \in 1..Len(sorted) |->
                  serialize_key(sorted[n][1]) \o <<cEquals>> \o serialize_nested(sorted[n][2])]
  IN Join(parts, <<cComma>>)

serialize_array(arr) ==
  Join([n \in 1..Len(arr) |-> serialize_nested(arr[n])], <<cComma>>)

serialize(value) ==
  CASE value.t = "Object" -> IF value.x = <<>> THEN <<>> ELSE serialize_object(value.x)
    [] value.t = "Array" -> <<cLBracket>> \o serialize_array(value.x) \o <<cRBracket>>
    [] value.t = "String" -> serialize_string(value.x)
    [] value.t = "Number" -> serialize_number(value.x)
    [] value.t = "Bool" -> BoolText(value.x)
    [] value.t = "Null" -> NullText

(***************************************************************************)
(* The pretty serializer                                                   *)
(***************************************************************************)

\* indent.repeat(depth)
RECURSIVE get_indent_str(_, _)
get_indent_str(ind, depth) ==
  IF depth = 0 THEN <<>> ELSE ind \o get_indent_str(ind, depth - 1)

RECURSIVE serialize_pretty_with_depth(_, _, _, _)
RECURSIVE serialize_object_pretty(_, _, _, _)
RECURSIVE serialize_array_pretty(_, _, _)

\* A variant of serialize_object_pretty that indents the pairs of the
\* top-level object by one unit.
serialize_object_pretty_indent_root(map, ind, depth, in_array) ==
  LET sorted == SortedByKey(map)
      inner_indent == IF in_array THEN get_indent_str(ind, depth + 2)
                      ELSE IF depth = 0 THEN ind
                      ELSE get_indent_str(ind, depth)
      parts == [n \in 1..Len(sorted) |->
                  inner_indent \o serialize_key(sorted[n][1]) \o <<cSpace, cEquals, cSpace>>
                  \o serialize_pretty_with_depth(sorted[n][2], ind, depth + 1, FALSE)]
  IN IF parts = <<>> THEN <<>>
     ELSE IF in_array
       THEN LET brace_indent == get_indent_str(ind, depth + 1) IN
            brace_indent \o <<cLBrace, cNewline>> \o Join(parts, <<cComma, cNewline>>)
            \o <<cNewline>> \o brace_indent \o <<cRBrace>>
     ELSE IF depth = 0 THEN Join(parts, <<cComma, cNewline>>)
     ELSE <<cLBrace, cNewline>> \o Join(parts, <<cComma, cNewline>>)
          \o <<cNewline>> \o get_indent_str(ind, depth - 1) \o <<cRBrace>>

serialize_object_pretty(map, ind, depth, in_array) ==
  LET sorted == SortedByKey(map)
      inner_indent == IF in_array THEN get_indent_str(ind, depth + 2)
                      ELSE IF depth = 0 THEN <<>>
                      ELSE get_indent_str(ind, depth)
      parts == [n \in 1..Len(sorted) |->
                  inner_indent \o serialize_key(sorted[n][1]) \o <<cSpace, cEquals, cSpace>>
                  \o serialize_pretty_with_depth(sorted[n][2], ind, depth + 1, FALSE)]
  IN IF parts = <<>> THEN <<>>
     ELSE IF in_array
       THEN LET brace_indent == get_indent_str(ind, depth + 1) IN
            brace_indent \o <<cLBrace, cNewline>> \o Join(parts, <<cComma, cNewline>>)
            \o <<cNewline>> \o brace_indent \o <<cRBrace>>
     ELSE IF depth = 0 THEN Join(parts, <<cComma, cNewline>>)
     ELSE <<cLBrace, cNewline>> \o Join(parts, <<cComma, cNewline>>)
          \o <<cNewline>> \o get_indent_str(ind, depth - 1) \o <<cRBrace>>

serialize_array_pretty(arr, ind, depth) ==
  IF arr = <<>> THEN <<cLBracket, cRBracket>>
  ELSE
    LET outer_indent == IF depth > 0 THEN get_indent_str(ind, depth - 1) ELSE <<>>
        elements ==
          [n \in 1..Len(arr) |->
             IF arr[n].t = "Object"
               THEN serialize_pretty_with_depth(arr[n], ind,
                                                IF depth > 0 THEN depth - 1 ELSE 0, TRUE)
               ELSE (IF depth = 0 THEN ind ELSE get_indent_str(ind, depth))
                    \o serialize_pretty_with_depth(arr[n], ind, depth + 1, FALSE)]
    IN <<cLBracket, cNewline>> \o Join(elements, <<cComma, cNewline>>)
       \o <<cNewline>> \o outer_indent \o <<cRBracket>>

serialize_pretty_with_depth(value, ind, depth, in_array) ==
  CASE value.t = "Object" ->
         IF value.x = <<>> THEN <<>>
         ELSE serialize_object_pretty(value.x, ind, depth, in_array)
    [] value.t = "Array" -> serialize_array_pretty(value.x, ind, depth)
    [] value.t = "String" -> serialize_string(value.x)
    [] value.t = "Number" -> serialize_number(value.x)
    [] value.t = "Bool" -> BoolText(value.x)
    [] value.t = "Null" -> NullText

serialize_pretty(value, ind) == serialize_pretty_with_depth(value, ind, 0, FALSE)

(***************************************************************************)
(* Input texts.  An input is written as a sequence of pieces (src); the    *)
(* text handed to parse is their concatenation.                            *)
(***************************************************************************)

RECURSIVE Flatten(_)
Flatten(pieces) == IF pieces = <<>> THEN <<>> ELSE Head(pieces) \o Flatten(Tail(pieces))

\* The sequences of exactly n items of S, with sep between two items.
RECURSIVE SeparatedBy(_, _, _)
SeparatedBy(S, sep, n) ==
  IF n = 1 THEN {<<a>> : a \in S}
  ELSE {ps \o <<sep, a>> : ps \in SeparatedBy(S, sep, n - 1), a \in S}

\* The texts over the alphabet A of length at most n.
RECURSIVE TextsUpTo(_, _)
TextsUpTo(A, n) ==
  IF n = 0 THEN {<<>>}
  ELSE LET shorter == TextsUpTo(A, n - 1) IN
       shorter \cup {Append(t, c) : t \in shorter, c \in A}

\* The most pairs a generated document holds at the top level.
MaxPairs == 2

\* Key texts: unquoted, with '-' and '_', a letter outside ASCII, and
\* quoted keys (the empty key, a key with a space).
KeyTexts ==
  { Txt(<<"a">>), Txt(<<"k", "-", "_", "1">>), Txt(<<"e-acute">>),
    Txt(<<"\"", "\"">>), Txt(<<"\"", "a", " ", "b", "\"">>) }

\* Numeric literals without decimal point.
IntegerLiterals ==
  { Txt(<<"1">>), Txt(<<"3", "0">>), Txt(<<"-", "1", "2", "3">>), Txt(<<"0", "7">>),
    Txt(<<"-", "0">>) }

\* Other scalar literals: numbers with a fraction, booleans, null, quoted
\* strings (with escapes, with a control character, with "//") and a raw
\* string.
OtherScalarTexts ==
  { Txt(<<"-", "2", ".", "5", "0">>), Txt(<<"0", ".", "2", "5">>),
    Txt(<<"t", "r", "u", "e">>), Txt(<<"f", "a", "l", "s", "e">>),
    Txt(<<"n", "u", "l", "l">>),
    Txt(<<"\"", "s", "\"">>), Txt(<<"\"", "\"">>),
    Txt(<<"'", "\\", "n", "\"", "\\", "q", "'">>),
    Txt(<<"\"", "\\", "u", "0", "0", "0", "1", "\"">>),
    Txt(<<"\"", "/", "\\", "u", "0", "0", "2", "f", "\"">>),
    Txt(<<"r", "#", "\"", "a", "\"", "b", "\"", "#">>) }

\* Arrays and nested objects, empty ones among them.
ContainerTexts ==
  { Txt(<<"[", "]">>), Txt(<<"{", "}">>),
    Txt(<<"[", "1", ",", "{", "}", "]">>),
    Txt(<<"[", "[", "]", ",", "[", "t", "r", "u", "e", "]", "]">>),
    Txt(<<"[", "{", "b", "=", "1", ",", "a", "=", "[", "2", "]", "}", "]">>),
    Txt(<<"{", "b", "=", "{", "}", ",", "a", "=", "1", "}">>),
    Txt(<<"{", "z", "=", "{", "y", "=", "2", ",", "\"", "x", " ", "\"", "=", "3", "}", "}">>) }

ValueTexts == IntegerLiterals \cup OtherScalarTexts \cup ContainerTexts

\* A document of one pair: <<key, "=", value>>.
OnePairDocs == {<<k, <<cEquals>>, v>> : k \in KeyTexts, v \in ValueTexts}

\* The pairs of the documents of several pairs.
SmallPairs ==
  { Txt(<<"b", "=", "1">>), Txt(<<"a", "=", "\"", "s", "\"">>), Txt(<<"a", "=", "{", "}">>),
    Txt(<<"c", "=", "[", "2", "]">>), Txt(<<"\"", "a", " ", "\"", "=", "{", "d", "=", "1", ",", "c", "=", "2", "}">>),
    Txt(<<"b", "=", "n", "u", "l", "l">>) }

\* name="John",age=30
ExampleDoc ==
  <<Txt(<<"n", "a", "m", "e", "=", "\"", "J", "o", "h", "n", "\"">>), <<cComma>>,
    Txt(<<"a", "g", "e", "=", "3", "0">>)>>

\* Documents: the empty one, one pair, or 2 .. MaxPairs pairs with commas.
Docs ==
  {<<>>, ExampleDoc} \cup OnePairDocs
  \cup UNION {SeparatedBy(SmallPairs, <<cComma>>, n) : n \in 2..MaxPairs}

(***************************************************************************)
(* Documents with different separators                                     *)
(***************************************************************************)

\* Pairs with the key and the value they denote.
SepItems ==
  { [txt |-> Txt(<<"a", "=", "1">>), key |-> Txt(<<"a">>),
     val |-> NumberV("float", FALSE, Txt(<<"1">>), <<>>)],
    [txt |-> Txt(<<"b", "=", "2">>), key |-> Txt(<<"b">>),
     val |-> NumberV("float", FALSE, Txt(<<"2">>), <<>>)],
    [txt |-> Txt(<<"b", "=", "\"", "s", "\"">>), key |-> Txt(<<"b">>),
     val |-> StringV(Txt(<<"s">>))],
    [txt |-> Txt(<<"c", "=", "t", "r", "u", "e">>), key |-> Txt(<<"c">>),
     val |-> BoolV(TRUE)],
    [txt |-> Txt(<<"a", "=", "[", "]">>), key |-> Txt(<<"a">>),
     val |-> ArrayV(<<>>)] }

\* A comma, a newline, a comma followed by a space.
Separators == {<<cComma>>, <<cNewline>>, <<cComma, cSpace>>}

\* What follows the last pair: nothing, or a trailing comma.
Trailers == {<<>>, <<cComma>>}

\* <<pair, sep, pair, ..., sep, pair, trailer>> with the same separator
\* between all pairs, 1 .. MaxPairs pairs.
SepDocs ==
  UNION { {ps \o <<tr>> : ps \in SeparatedBy({it.txt : it \in SepItems}, sep, n),
                          tr \in Trailers}
          : sep \in Separators, n \in 1..MaxPairs }

(***************************************************************************)
(* Raw strings                                                             *)
(***************************************************************************)

\* The most hashes of a generated raw string, and the most characters after
\* its opening quote.
MaxHashes == 2
MaxRawLen == 5

\* <<x=r, hashes, ", tail>>: the tail is every text of quotes, hashes and
\* a letter.
RECURSIVE Hashes(_)
Hashes(n) == IF n = 0 THEN <<>> ELSE Append(Hashes(n - 1), cHash)

RawDocs ==
  { <<Txt(<<"x", "=", "r">>), Hashes(h), <<cDQuote>>, tail>> :
      h \in 0..MaxHashes, tail \in TextsUpTo({Ord("a"), cDQuote, cHash}, MaxRawLen) }

(***************************************************************************)
(* Keys followed by something else than '='                                *)
(***************************************************************************)

\* The most characters after the key and the white space that follows it.
MaxRest == 3

\* What precedes the key: nothing, a pair, the opening of a nested object
\* (as a value, after a pair of it, in an array, as the whole document).
KeyPrefixes ==
  { <<>>, Txt(<<"b", "=", "1", ",">>), Txt(<<"x", "=", "{">>),
    Txt(<<"x", "=", "{", "c", "=", "2", "\n">>), Txt(<<"x", "=", "[", "{">>),
    Txt(<<"{">>) }

EqKeys == { Txt(<<"a">>), Txt(<<"k", "-", "1">>), Txt(<<"\"", "a", " ", "b", "\"">>) }

EqSpaces == { <<>>, <<cSpace>>, <<cSpace, cNewline>> }

\* <<prefix, key, white space, rest>>
EqDocs ==
  { <<pre, key, ws, rest>> :
      pre \in KeyPrefixes, key \in EqKeys, ws \in EqSpaces,
      rest \in TextsUpTo({cEquals, Ord("1"), Ord(":"), cRBrace, cRBracket}, MaxRest) }

(***************************************************************************)
(* Documents with one piece that may be malformed                          *)
(***************************************************************************)

\* <<prefix, suffix>> around a value.
ValueContexts ==
  { <<Txt(<<"a", "=">>), <<>>>>,
    <<Txt(<<"a", "=", "1", ",", "b", "=">>), Txt(<<",", "c", "=", "2">>)>>,
    <<Txt(<<"a", "=", "[", "1", ",">>), Txt(<<"]">>)>>,
    <<Txt(<<"a", "=", "[">>), Txt(<<",", "2", "]", ",", "b", "=", "3">>)>>,
    <<Txt(<<"a", "=", "{", "b", "=">>), Txt(<<"}">>)>>,
    <<Txt(<<"a", "=", "{", "b", "=", "1", ",", "c", "=">>),
      Txt(<<",", "d", "=", "2", "}", ",", "e", "=", "3">>)>>,
    <<Txt(<<"{", "a", "=">>), Txt(<<"}">>)>>,
    <<Txt(<<"a", "=", "[", "{", "b", "=">>), Txt(<<"}", "]">>)>> }

GoodValues == { Txt(<<"1">>), Txt(<<"\"", "s", "\"">>), Txt(<<"[", "2", "]">>) }

\* No value: an unexpected character, a sign without digits, a decimal
\* point without digits, a cut boolean and null, r without a quote, a
\* \u escape that is not hexadecimal, a lone '+', an unterminated string.
BadValues ==
  { Txt(<<"@">>), Txt(<<"-">>), Txt(<<"1", ".">>), Txt(<<"t", "r", "u">>),
    Txt(<<"n", "u", "l">>), Txt(<<"r", "1">>),
    Txt(<<"\"", "\\", "u", "0", "0", "g", "0", "\"">>), Txt(<<"+", "1">>),
    Txt(<<"\"", "s">>) }

\* <<prefix, suffix>> around a key.
KeyContexts ==
  { <<<<>>, Txt(<<"=", "1">>)>>,
    <<Txt(<<"a", "=", "1", ",">>), Txt(<<"=", "1", ",", "c", "=", "2">>)>>,
    <<Txt(<<"x", "=", "{">>), Txt(<<"=", "1", "}">>)>>,
    <<Txt(<<"x", "=", "[", "{", "b", "=", "1", ",">>), Txt(<<"=", "2", "}", "]">>)>> }

GoodKeys == { Txt(<<"k">>), Txt(<<"\"", "q", "\"">>) }

\* No key: a character no key starts with, the empty text, a surrogate
\* escape in a quoted key, an unterminated quoted key.
BadKeys ==
  { Txt(<<"@">>), <<>>, Txt(<<"\"", "\\", "u", "d", "8", "0", "0", "\"">>),
    Txt(<<"'", "q">>) }

\* <<prefix, suffix>> around the '=' of a pair.
EqualsContexts ==
  { <<Txt(<<"a">>), Txt(<<"1">>)>>,
    <<Txt(<<"x", "=", "{", "a">>), Txt(<<"1", "}">>)>>,
    <<Txt(<<"x", "=", "[", "{", "a">>), Txt(<<"1", "}", "]">>)>> }

GoodEquals == { <<cEquals>>, <<cSpace, cEquals, cSpace>> }

BadEquals == { <<>>, <<cSpace>>, Txt(<<":">>) }

\* <<prefix, piece, suffix>>
FailDocs ==
  {<<c[1], piece, c[2]>> : c \in ValueContexts, piece \in GoodValues \cup BadValues}
  \cup {<<c[1], piece, c[2]>> : c \in KeyContexts, piece \in GoodKeys \cup BadKeys}
  \cup {<<c[1], piece, c[2]>> : c \in EqualsContexts, piece \in GoodEquals \cup BadEquals}

(***************************************************************************)
(* Documents with a construct that may be left open                        *)
(***************************************************************************)

\* <<prefix, suffix>> around a value: in a bare object (alone, after a
\* pair, before a pair), in a brace-wrapped object, and after the closing
\* brace of the object a brace-wrapped text opens with.
OpenValueContexts ==
  { <<Txt(<<"x", "=">>), <<>>>>,
    <<Txt(<<"a", "=", "1", ",", "x", "=">>), <<>>>>,
    <<Txt(<<"x", "=">>), Txt(<<",", "y", "=", "2">>)>>,
    <<Txt(<<"{", "x", "=">>), Txt(<<"}">>)>>,
    <<Txt(<<"{", "a", "=", "1", ",", "x", "=">>), Txt(<<"}">>)>>,
    <<Txt(<<"{", "a", "=", "1", "}", "x", "=">>), Txt(<<"}">>)>> }

\* Values opened and not closed: quoted strings (the closing quote of the
\* other kind, or escaped), raw strings (no quote, too few hashes), arrays
\* and nested objects.
UnclosedValues ==
  { Txt(<<"\"", "a", "b">>), Txt(<<"'", "a", "\"">>), Txt(<<"\"", "a", "\\", "\"">>),
    Txt(<<"\"">>),
    Txt(<<"r", "\"", "a", "b">>), Txt(<<"r", "#", "\"", "a", "b", "\"">>),
    Txt(<<"r", "#", "#", "\"", "a", "\"", "#">>),
    Txt(<<"[">>), Txt(<<"[", "1", ",", "2">>), Txt(<<"[", "1", ",", "[", "2", "]">>),
    Txt(<<"[", "\"", "]", "\"">>), Txt(<<"[", "{", "b", "=", "1", "}">>),
    Txt(<<"{">>), Txt(<<"{", "b", "=", "1">>), Txt(<<"{", "b", "=", "{", "c", "=", "1", "}">>),
    Txt(<<"{", "b", "=", "[", "1", "]">>) }

\* The same constructs, closed.
ClosedValues ==
  { Txt(<<"\"", "a", "b", "\"">>), Txt(<<"r", "#", "\"", "a", "b", "\"", "#">>),
    Txt(<<"[", "1", ",", "2", "]">>), Txt(<<"{", "b", "=", "1", "}">>) }

\* <<prefix, suffix>> around a key.
OpenKeyContexts ==
  { <<<<>>, Txt(<<"=", "1">>)>>,
    <<Txt(<<"a", "=", "1", ",">>), Txt(<<"=", "1">>)>>,
    <<Txt(<<"x", "=", "{">>), Txt(<<"=", "1", "}">>)>>,
    <<Txt(<<"{">>), Txt(<<"=", "1", "}">>)>> }

UnclosedKeys == { Txt(<<"\"", "k">>), Txt(<<"'", "k", "\"">>), Txt(<<"\"", "k", "\\", "\"">>) }

ClosedKeys == { Txt(<<"\"", "k", "\"">>), Txt(<<"'", "k", "'">>) }

\* <<prefix, piece, suffix>>
UnclosedDocs ==
  {<<c[1], piece, c[2]>> : c \in OpenValueContexts, piece \in UnclosedValues \cup ClosedValues}
  \cup {<<c[1], piece, c[2]>> : c \in OpenKeyContexts, piece \in UnclosedKeys \cup ClosedKeys}

(***************************************************************************)
(* Documents with duplicate keys                                           *)
(***************************************************************************)

\* Pairs with the key and the value they denote; the key a is written
\* unquoted, quoted and with an escape.
DupItems ==
  { [txt |-> Txt(<<"a", "=", "1">>), key |-> Txt(<<"a">>),
     val |-> NumberV("float", FALSE, Txt(<<"1">>), <<>>)],
    [txt |-> Txt(<<"a", "=", "2">>), key |-> Txt(<<"a">>),
     val |-> NumberV("float", FALSE, Txt(<<"2">>), <<>>)],
    [txt |-> Txt(<<"\"", "a", "\"", "=", "t", "r", "u", "e">>), key |-> Txt(<<"a">>),
     val |-> BoolV(TRUE)],
    [txt |-> Txt(<<"'", "\\", "u", "0", "0", "6", "1", "'", "=", "[", "]">>), key |-> Txt(<<"a">>),
     val |-> ArrayV(<<>>)],
    [txt |-> Txt(<<"b", "=", "4">>), key |-> Txt(<<"b">>),
     val |-> NumberV("float", FALSE, Txt(<<"4">>), <<>>)] }

\* <<prefix, suffix>> around the pairs: a bare object, a brace-wrapped
\* object, a nested object.
DupContexts ==
  { <<<<>>, <<>>>>, <<Txt(<<"{">>), Txt(<<"}">>)>>, <<Txt(<<"x", "=", "{">>), Txt(<<"}">>)>> }

\* <<prefix, pair, ",", pair, ..., suffix>> with 2 .. MaxPairs + 1 pairs.
DupDocs ==
  UNION { {<<c[1]>> \o ps \o <<c[2]>> :
             ps \in SeparatedBy({it.txt : it \in DupItems}, <<cComma>>, n)}
          : c \in DupContexts, n \in 2..(MaxPairs + 1) }

(***************************************************************************)
(* Texts with comments                                                     *)
(***************************************************************************)

\* The most characters of a generated text with comments.
MaxCommentLen == 6

\* <<t>>: every text of slashes, stars, newlines and a letter.
CommentDocs == { <<t>> : t \in TextsUpTo({cSlash, cStar, cNewline, Ord("a")}, MaxCommentLen) }

(***************************************************************************)
(* Documents with white space before a comma                               *)
(***************************************************************************)

\* <<prefix, suffix>> around <<value, white space, ",">>: in a bare object,
\* a nested object, a brace-wrapped object and an array.
CommaContexts ==
  { <<Txt(<<"a", "=">>), Txt(<<" ", "b", "=", "2">>)>>,
    <<Txt(<<"x", "=", "{", "a", "=">>), Txt(<<"b", "=", "2", "}">>)>>,
    <<Txt(<<"{", "a", "=">>), Txt(<<"b", "=", "2", "}">>)>>,
    <<Txt(<<"x", "=", "[">>), Txt(<<" ", "2", "]">>)>> }

CommaValues ==
  { Txt(<<"1">>), Txt(<<"\"", "s", "\"">>), Txt(<<"t", "r", "u", "e">>),
    Txt(<<"[", "2", "]">>), Txt(<<"{", "c", "=", "3", "}">>) }

\* Spaces and tabs, or nothing.
CommaSpaces == { <<>>, <<cSpace>>, <<cTab>>, <<cSpace, cSpace>> }

\* <<prefix, value, white space, ",", suffix>>
CommaDocs ==
  { <<c[1], v, ws, <<cComma>>, c[2]>> :
      c \in CommaContexts, v \in CommaValues, ws \in CommaSpaces }

(***************************************************************************)
(* Documents with separators before a closing bracket                      *)
(***************************************************************************)

\* The most characters between the last element or pair and the closing
\* bracket.
MaxTrail == 3

\* <<prefix, closing>> around the trailing separators: an array, a nested
\* object, a brace-wrapped object, an array of arrays.
TrailContexts ==
  { <<Txt(<<"x", "=", "[", "1", ",", "2">>), Txt(<<"]">>)>>,
    <<Txt(<<"x", "=", "{", "a", "=", "1">>), Txt(<<"}">>)>>,
    <<Txt(<<"{", "a", "=", "\"", "s", "\"">>), Txt(<<"}">>)>>,
    <<Txt(<<"x", "=", "[", "[", "1", "]">>), Txt(<<"]", ",", "y", "=", "2">>)>> }

\* <<prefix, separators, closing>>: every mixture of commas, newlines,
\* spaces and tabs.
TrailDocs ==
  { <<c[1], trail, c[2]>> :
      c \in TrailContexts, trail \in TextsUpTo({cComma, cNewline, cSpace, cTab}, MaxTrail) }

(***************************************************************************)
(* Documents with numeric literals                                         *)
(***************************************************************************)

\* <<prefix, suffix>> around a numeric literal: in a bare object (last,
\* before a pair), in a nested object and in an array.
NumberContexts ==
  { <<Txt(<<"n", "=">>), <<>>>>,
    <<Txt(<<"n", "=">>), Txt(<<",", "m", "=", "2">>)>>,
    <<Txt(<<"x", "=", "{", "n", "=">>), Txt(<<"}">>)>>,
    <<Txt(<<"x", "=", "[">>), Txt(<<"]">>)>> }

\* Literals with underscores in the digit run, and the same literal
\* without them.
UnderscoreLiterals ==
  { [txt |-> Txt(<<"1", "_", "0", "0", "0">>), plain |-> Txt(<<"1", "0", "0", "0">>)],
    [txt |-> Txt(<<"3", "0", "_", "0", "0", "0">>), plain |-> Txt(<<"3", "0", "0", "0", "0">>)],
    [txt |-> Txt(<<"1", "_", "0", "0", "0", "_", "0", "0", "0">>),
     plain |-> Txt(<<"1", "0", "0", "0", "0", "0", "0">>)],
    [txt |-> Txt(<<"-", "1", "_", "0">>), plain |-> Txt(<<"-", "1", "0">>)] }

\* Literals with an exponent, and the decimal literal of the same value.
ExponentLiterals ==
  { [txt |-> Txt(<<"1", "e", "5">>), plain |-> Txt(<<"1", "0", "0", "0", "0", "0">>)],
    [txt |-> Txt(<<"2", "E", "-", "3">>), plain |-> Txt(<<"0", ".", "0", "0", "2">>)],
    [txt |-> Txt(<<"1", ".", "5", "e", "+", "2">>), plain |-> Txt(<<"1", "5", "0">>)],
    [txt |-> Txt(<<"-", "1", "e", "0">>), plain |-> Txt(<<"-", "1">>)] }

NumberLiterals ==
  {l.txt : l \in UnderscoreLiterals \cup ExponentLiterals}
  \cup {l.plain : l \in UnderscoreLiterals \cup ExponentLiterals}

\* <<prefix, literal, suffix>>
NumberDocs == { <<c[1], l, c[2]>> : c \in NumberContexts, l \in NumberLiterals }

(***************************************************************************)
(* Documents with a \u escape                                              *)
(***************************************************************************)

\* The number of characters a \u escape takes: chars[i..i + 4].
EscapeLen == 4

\* <<prefix, suffix>> around the characters after \u: a string in double
\* quotes, in single quotes, one that the input ends in, and a quoted key.
EscapeContexts ==
  { <<Txt(<<"x", "=", "\"", "\\", "u">>), Txt(<<"\"">>)>>,
    <<Txt(<<"x", "=", "'", "\\", "u">>), Txt(<<"'">>)>>,
    <<Txt(<<"x", "=", "\"", "\\", "u">>), <<>>>>,
    <<Txt(<<"\"", "\\", "u">>), Txt(<<"\"", "=", "1">>)>> }

\* <<prefix, characters, suffix>>: up to EscapeLen characters out of
\* hexadecimal digits of both cases, signs and a letter that is no digit.
EscapeDocs ==
  { <<c[1], body, c[2]>> :
      c \in EscapeContexts,
      body \in TextsUpTo({Ord("0"), Ord("F"), Ord("d"), Ord("8"), cPlus, cMinus, Ord("g")},
                         EscapeLen) }

(***************************************************************************)
(* Documents with whole numbers                                            *)
(***************************************************************************)

\* Literals of floats without fraction, and the decimal digits of their
\* value: below 2^63 (8080, with a zero fraction, zero, 10^18) and above
\* (10^19, 10^20, which are floats exactly).
WholeLiterals ==
  { [txt |-> Txt(<<"8", "0", "8", "0">>),
     digits |-> Txt(<<"8", "0", "8", "0">>)],
    [txt |-> Txt(<<"8", "0", "8", "0", ".", "0">>),
     digits |-> Txt(<<"8", "0", "8", "0">>)],
    [txt |-> Txt(<<"8", "0", "8", "0", ".", "0", "0", "0">>),
     digits |-> Txt(<<"8", "0", "8", "0">>)],
    [txt |-> Txt(<<"-", "5", ".", "0">>),
     digits |-> Txt(<<"-", "5">>)],
    [txt |-> Txt(<<"0">>),
     digits |-> Txt(<<"0">>)],
    [txt |-> Txt(<<"-", "0", ".", "0">>),
     digits |-> Txt(<<"0">>)],
    [txt |-> Txt(<<"0", "0", "7">>),
     digits |-> Txt(<<"7">>)],
    [txt |-> Txt(<<"1", "0", "0", "0", "0", "0", "0", "0", "0", "0", "0", "0", "0", "0", "0", "0", "0", "0", "0">>),
     digits |-> Txt(<<"1", "0", "0", "0", "0", "0", "0", "0", "0", "0", "0", "0", "0", "0", "0", "0", "0", "0", "0">>)],
    [txt |-> Txt(<<"1", "0", "0", "0", "0", "0", "0", "0", "0", "0", "0", "0", "0", "0", "0", "0", "0", "0", "0", "0">>),
     digits |-> Txt(<<"1", "0", "0", "0", "0", "0", "0", "0", "0", "0", "0", "0", "0", "0", "0", "0", "0", "0", "0", "0">>)],
    [txt |-> Txt(<<"-", "1", "0", "0", "0", "0", "0", "0", "0", "0", "0", "0", "0", "0", "0", "0", "0", "0", "0", "0", "0">>),
     digits |-> Txt(<<"-", "1", "0", "0", "0", "0", "0", "0", "0", "0", "0", "0", "0", "0", "0", "0", "0", "0", "0", "0", "0">>)],
    [txt |-> Txt(<<"1", "0", "0", "0", "0", "0", "0", "0", "0", "0", "0", "0", "0", "0", "0", "0", "0", "0", "0", "0", "0", ".", "0">>),
     digits |-> Txt(<<"1", "0", "0", "0", "0", "0", "0", "0", "0", "0", "0", "0", "0", "0", "0", "0", "0", "0", "0", "0", "0">>)] }

\* <<"n=", literal>>
WholeDocs == { <<Txt(<<"n", "=">>), l.txt>> : l \in WholeLiterals }

\* The indent units of serialize_pretty.
Indents == {<<>>, <<cSpace, cSpace>>, <<cTab>>}

(***************************************************************************)
(* The state machine: a text is parsed, the value serialized, and the      *)
(* serializer's output parsed again.                                       *)
(***************************************************************************)

TypeOK ==
  /\ text = Flatten(src)
  /\ pc \in {"input", "parsed", "compact", "pretty", "reparsed-compact", "reparsed-pretty",
            "stripped", "restripped"}
  /\ parsed.k \in {"None", "Ok", "Err", "Panic"}
  /\ reparsed.k \in {"None", "Ok", "Err", "Panic"}

InitWith(inputs) ==
  /\ src \in inputs
  /\ text = Flatten(src)
  /\ pc = "input"
  /\ parsed = NoResult
  /\ out = <<>>
  /\ indent = <<>>
  /\ reparsed = NoResult
  /\ stripped = <<>>
  /\ restripped = <<>>

Init == InitWith(Docs)

\* parse(text)
Parse ==
  /\ pc = "input"
  /\ parsed' = parse(text)
  /\ pc' = "parsed"
  /\ UNCHANGED <<src, text, out, indent, reparsed, stripped, restripped>>

\* serialize(&value) on the value parse returned
Serialize ==
  /\ pc = "parsed"
  /\ parsed.k = "Ok"
  /\ out' = serialize(parsed.v)
  /\ pc' = "compact"
  /\ UNCHANGED <<src, text, parsed, indent, reparsed, stripped, restripped>>

\* serialize_pretty(&value, indent) on the value parse returned
SerializePretty ==
  /\ pc = "parsed"
  /\ parsed.k = "Ok"
  /\ \E ind \in Indents :
       /\ indent' = ind
       /\ out' = serialize_pretty(parsed.v, ind)
  /\ pc' = "pretty"
  /\ UNCHANGED <<src, text, parsed, reparsed, stripped, restripped>>

\* parse on the serializer's output
Reparse ==
  /\ pc \in {"compact", "pretty"}
  /\ reparsed' = parse(out)
  /\ pc' = IF pc = "compact" THEN "reparsed-compact" ELSE "reparsed-pretty"
  /\ UNCHANGED <<src, text, parsed, out, indent, stripped, restripped>>

\* remove_comments(text)
RemoveComments ==
  /\ pc = "input"
  /\ stripped' = remove_comments(text)
  /\ pc' = "stripped"
  /\ UNCHANGED <<src, text, parsed, out, indent, reparsed, restripped>>

\* remove_comments on its own result
RemoveCommentsAgain ==
  /\ pc = "stripped"
  /\ restripped' = remove_comments(stripped)
  /\ pc' = "restripped"
  /\ UNCHANGED <<src, text, parsed, out, indent, reparsed, stripped>>

Next ==
  \/ Parse \/ Serialize \/ SerializePretty \/ Reparse
  \/ RemoveComments \/ RemoveCommentsAgain

Spec == Init /\ [][Next]_vars

\* The same machine on the other families of inputs.
InitSep == InitWith(SepDocs)
SpecSep == InitSep /\ [][Next]_vars

InitRaw == InitWith(RawDocs)
SpecRaw == InitRaw /\ [][Next]_vars

InitEq == InitWith(EqDocs)
SpecEq == InitEq /\ [][Next]_vars

InitFail == InitWith(FailDocs)
SpecFail == InitFail /\ [][Next]_vars

InitUnclosed == InitWith(UnclosedDocs)
SpecUnclosed == InitUnclosed /\ [][Next]_vars

InitDup == InitWith(DupDocs)
SpecDup == InitDup /\ [][Next]_vars

InitComments == InitWith(CommentDocs)
SpecComments == InitComments /\ [][Next]_vars

InitComma == InitWith(CommaDocs)
SpecComma == InitComma /\ [][Next]_vars

InitTrail == InitWith(TrailDocs)
SpecTrail == InitTrail /\ [][Next]_vars

InitNumbers == InitWith(NumberDocs)
SpecNumbers == InitNumbers /\ [][Next]_vars

InitEscape == InitWith(EscapeDocs)
SpecEscape == InitEscape /\ [][Next]_vars

InitWhole == InitWith(WholeDocs)
SpecWhole == InitWhole /\ [][Next]_vars

\* The values a caller hands to serialize_pretty directly (the tests build
\* them with json!): the number 1 under up to MaxDepth objects and arrays of
\* one or two members, an object or an array at the root.
MaxDepth == 4

LeafValue == NumberV("int", FALSE, Txt(<<"1">>), <<>>)

Wrapped(vs) ==
  {ArrayV(<<v>>) : v \in vs} \cup {ArrayV(<<LeafValue, v>>) : v \in vs}
  \cup {ObjectV(<<<<Txt(<<"a">>), v>>>>) : v \in vs}
  \cup {ObjectV(<<<<Txt(<<"a">>), LeafValue>>, <<Txt(<<"b">>), v>>>>) : v \in vs}

RECURSIVE NestedValues(_)
NestedValues(depth) ==
  IF depth = 0 THEN {LeafValue}
  ELSE {LeafValue} \cup Wrapped(NestedValues(depth - 1))

PrettyValues == NestedValues(MaxDepth) \ {LeafValue}

\* The caller holds a value and has not serialized it yet.
InitPretty ==
  /\ src = <<>>
  /\ text = <<>>
  /\ pc = "parsed"
  /\ parsed \in {Ok(v) : v \in PrettyValues}
  /\ out = <<>>
  /\ indent = <<>>
  /\ reparsed = NoResult
  /\ stripped = <<>>
  /\ restripped = <<>>

SpecPretty == InitPretty /\ [][SerializePretty]_vars

\* Texts with nothing but white space and comments: up to MaxBlank pieces
\* (a space, a tab, a newline, a carriage return, a line comment with its
\* newline, block comments on one line, over two lines and empty), then
\* nothing or a line comment that the end of input ends.
MaxBlank == 3

BlankPieces ==
  { <<cSpace>>, <<cTab>>, <<cNewline>>, <<cReturn>>,
    Txt(<<"/", "/", "a", "\n">>), Txt(<<"/", "*", " ", "c", " ", "*", "/">>),
    Txt(<<"/", "*", "\n", "*", "*", "/">>), Txt(<<"/", "*", "*", "/">>) }

BlankTails == { <<>>, Txt(<<"/", "/", "a">>), Txt(<<"/", "/", " ", "/", "*">>) }

RECURSIVE PiecesUpTo(_, _)
PiecesUpTo(S, n) ==
  IF n = 0 THEN {<<>>}
  ELSE PiecesUpTo(S, n - 1) \cup {Append(ps, a) : ps \in PiecesUpTo(S, n - 1), a \in S}

BlankDocs == { Append(ps, tail) : ps \in PiecesUpTo(BlankPieces, MaxBlank), tail \in BlankTails }

\* Numeric literals with the f64 each denotes: sign, digits of the integer
\* part without leading zeros, digits of the fraction without trailing zeros.
FloatLiterals ==
  { [txt |-> Txt(<<"4", "2">>), neg |-> FALSE, ip |-> Txt(<<"4", "2">>), fp |-> <<>>],
    [txt |-> Txt(<<"-", "1", "2", "3">>), neg |-> TRUE, ip |-> Txt(<<"1", "2", "3">>), fp |-> <<>>],
    [txt |-> Txt(<<"3", ".", "1", "4">>), neg |-> FALSE, ip |-> Txt(<<"3">>), fp |-> Txt(<<"1", "4">>)],
    [txt |-> Txt(<<"-", "4", "5", ".", "6", "7">>), neg |-> TRUE, ip |-> Txt(<<"4", "5">>),
     fp |-> Txt(<<"6", "7">>)],
    [txt |-> Txt(<<"4", ".", "0">>), neg |-> FALSE, ip |-> Txt(<<"4">>), fp |-> <<>>],
    [txt |-> Txt(<<"2", ".", "5", "0">>), neg |-> FALSE, ip |-> Txt(<<"2">>), fp |-> Txt(<<"5">>)],
    [txt |-> Txt(<<"0">>), neg |-> FALSE, ip |-> <<>>, fp |-> <<>>],
    [txt |-> Txt(<<"0", "0", "7">>), neg |-> FALSE, ip |-> Txt(<<"7">>), fp |-> <<>>],
    [txt |-> Txt(<<"0", ".", "2", "5">>), neg |-> FALSE, ip |-> <<>>, fp |-> Txt(<<"2", "5">>)] }

\* <<prefix, suffix>> around the literal: a pair of the bare object, an
\* array element, a pair of a nested object.
FloatContexts ==
  { <<Txt(<<"i", "n", "t", "=">>), <<>>>>,
    <<Txt(<<"n", "u", "m", "b", "e", "r", "s", "=", "[", "1", ",", " ">>), Txt(<<"]">>)>>,
    <<Txt(<<"o", "=", "{", "n", "=">>), Txt(<<"}">>)>> }

FloatDocs == { <<c[1], l.txt, c[2]>> : c \in FloatContexts, l \in FloatLiterals }

InitFloat == InitWith(FloatDocs)
SpecFloat == InitFloat /\ [][Next]_vars

\* Values with the Value each denotes.
SpaceItems ==
  { [txt |-> Txt(<<"1">>), val |-> NumberV("float", FALSE, Txt(<<"1">>), <<>>)],
    [txt |-> Txt(<<"\"", "s", "\"">>), val |-> StringV(Txt(<<"s">>))],
    [txt |-> Txt(<<"t", "r", "u", "e">>), val |-> BoolV(TRUE)],
    [txt |-> Txt(<<"[", "]">>), val |-> ArrayV(<<>>)] }

\* Spaces and tabs alone.
SpaceSeparators == { <<cSpace>>, <<cTab>>, <<cSpace, cSpace>>, <<cSpace, cTab>> }

\* The keys of the pairs, by position.
SpaceKeys == <<Txt(<<"a">>), Txt(<<"b">>), Txt(<<"c">>), Txt(<<"d">>)>>

\* <<pieces before, pieces after, pairs>> around the items: the pairs of the
\* bare object, the pairs of a nested object, the elements of an array.
SpaceContexts ==
  { <<<<>>, <<>>, TRUE>>,
    <<Txt(<<"o", "=", "{">>), Txt(<<"}">>), TRUE>>,
    <<Txt(<<"a", "r", "r", "=", "[">>), Txt(<<"]">>), FALSE>> }

\* The items as written: the n-th is key=value in an object, value in an
\* array.
SpaceItemTexts(items, pairs) ==
  [n \in 1..Len(items) |->
     IF pairs THEN SpaceKeys[n] \o <<cEquals>> \o items[n].txt ELSE items[n].txt]

RECURSIVE ItemSeqs(_, _)
ItemSeqs(S, n) ==
  IF n = 0 THEN {<<>>} ELSE {Append(q, a) : q \in ItemSeqs(S, n - 1), a \in S}

\* <<prefix, item, sep, item, ..., suffix>>: 2 .. MaxPairs + 1 items.
SpaceDocs ==
  { <<c[1]>> \o Join([n \in 1..Len(items) |-> <<SpaceItemTexts(items, c[3])[n]>>], <<sep>>)
    \o <<c[2]>> :
      c \in SpaceContexts, sep \in SpaceSeparators,
      items \in UNION {ItemSeqs(SpaceItems, n) : n \in 2..(MaxPairs + 1)} }

InitSpace == InitWith(SpaceDocs)
SpecSpace == InitSpace /\ [][Next]_vars

\* Characters that no escape is defined for.
UnknownEscapeChars ==
  { Ord("q"), Ord("x"), Ord("0"), Ord("N"), Ord("U"), Ord("e-acute"), cSpace, cSlash,
    cHash, cNewline }

\* <<prefix, suffix>> around a quoted literal: a string value, an array
\* element, a key.
UnknownEscapeContexts ==
  { <<Txt(<<"x", "=">>), <<>>>>,
    <<Txt(<<"x", "=", "[">>), Txt(<<"]">>)>>,
    <<<<>>, Txt(<<"=", "1">>)>> }

\* <<prefix, quote, before, '\', c, after, quote, suffix>>
UnknownEscapeDocs ==
  { <<c[1], <<q>>, before, <<cBackslash>>, <<e>>, after, <<q>>, c[2]>> :
      c \in UnknownEscapeContexts, q \in {cDQuote, cSQuote},
      before \in {<<>>, Txt(<<"a">>)}, e \in UnknownEscapeChars,
      after \in {<<>>, Txt(<<"a">>), Txt(<<"n">>)} }

InitUnknownEscape == InitWith(UnknownEscapeDocs)
SpecUnknownEscape == InitUnknownEscape /\ [][Next]_vars

\* Brace-wrapped objects with the Value each denotes.
BracedHeads ==
  { [txt |-> Txt(<<"{", "a", "=", "1", "}">>),
     val |-> ObjectV(<<<<Txt(<<"a">>), NumberV("float", FALSE, Txt(<<"1">>), <<>>)>>>>)],
    [txt |-> Txt(<<"{", "a", "=", "{", "b", "=", "1", "}", "}">>),
     val |-> ObjectV(<<<<Txt(<<"a">>),
               ObjectV(<<<<Txt(<<"b">>), NumberV("float", FALSE, Txt(<<"1">>), <<>>)>>>>)>>>>)],
    [txt |-> Txt(<<"{", "}">>), val |-> ObjectV(<<>>)] }

\* <<object, rest>>: a brace-wrapped object and up to MaxRest characters
\* after its closing brace.
BracedDocs ==
  { <<h.txt, rest>> :
      h \in BracedHeads, rest \in TextsUpTo({cRBrace, cLBrace, Ord("b"), cEquals}, MaxRest) }

InitBraced == InitWith(BracedDocs)
SpecBraced == InitBraced /\ [][Next]_vars

\* The most characters of a generated value that is cut short.
MaxCut == 4

\* Values that end where a routine looks ahead: every text of up to MaxCut
\* characters over r, '#', '"', '\', u and 0 (raw strings and their closing
\* hashes, strings, \u escapes), and the beginnings of true, false and null.
CutValues ==
  TextsUpTo({Ord("r"), cHash, cDQuote, cBackslash, Ord("u"), cZero}, MaxCut)
  \cup { Txt(<<"t">>), Txt(<<"t", "r">>), Txt(<<"t", "r", "u">>), Txt(<<"t", "r", "u", "e">>),
         Txt(<<"f">>), Txt(<<"f", "a", "l", "s">>), Txt(<<"f", "a", "l", "s", "e">>),
         Txt(<<"n">>), Txt(<<"n", "u">>), Txt(<<"n", "u", "l">>), Txt(<<"n", "u", "l", "l">>),
         Txt(<<"[">>), Txt(<<"{">>), Txt(<<"-">>), Txt(<<"R">>) }

\* <<prefix, suffix>> around the value: the end of the bare object, the end
\* of a brace-wrapped object, a key.
CutContexts ==
  { <<Txt(<<"x", "=">>), <<>>>>,
    <<Txt(<<"{", "x", "=">>), Txt(<<"}">>)>>,
    <<<<>>, Txt(<<"=", "1">>)>> }

CutDocs == { <<c[1], v, c[2]>> : c \in CutContexts, v \in CutValues }

InitCut == InitWith(CutDocs)
SpecCut == InitCut /\ [][Next]_vars

InitBlank == InitWith(BlankDocs)
SpecBlank == InitBlank /\ [][Next]_vars

(***************************************************************************)
(* Round trips                                                             *)
(***************************************************************************)

\* C1: parse(serialize(v)) succeeds and returns a value equal to v, for
\* every v that parse returned.
CompactRoundTrip ==
  pc = "reparsed-compact" => reparsed.k = "Ok" /\ ValueEq(reparsed.v, parsed.v)

\* C2: parse(serialize_pretty(v, indent)) succeeds and returns a value equal
\* to v, for every v that parse returned and every indent unit.
PrettyRoundTrip ==
  pc = "reparsed-pretty" => reparsed.k = "Ok" /\ ValueEq(reparsed.v, parsed.v)

(***************************************************************************)
(* Key order                                                               *)
(***************************************************************************)

\* The members of every object in v are in strictly ascending key order.
RECURSIVE KeysAscendingIn(_)
KeysAscendingIn(v) ==
  CASE v.t = "Object" ->
         /\ \A n \in 1..(Len(v.x) - 1) : StrLess(v.x[n][1], v.x[n + 1][1])
         /\ \A n \in 1..Len(v.x) : KeysAscendingIn(v.x[n][2])
    [] v.t = "Array" -> \A n \in 1..Len(v.x) : KeysAscendingIn(v.x[n])
    [] OTHER -> TRUE

\* v with the members of every object inserted in the opposite order.
RECURSIVE ReverseInsertion(_)
ReverseInsertion(v) ==
  CASE v.t = "Object" ->
         ObjectV([n \in 1..Len(v.x) |->
                    <<v.x[Len(v.x) + 1 - n][1], ReverseInsertion(v.x[Len(v.x) + 1 - n][2])>>])
    [] v.t = "Array" -> ArrayV([n \in 1..Len(v.x) |-> ReverseInsertion(v.x[n])])
    [] OTHER -> v

\* C3: in the output of serialize and of serialize_pretty the pairs of every
\* object, at every depth, are in ascending byte-wise order of their keys
\* (parse reads them back in that order), and the output does not depend on
\* the order the keys were inserted in.
CanonicalKeyOrder ==
  /\ pc \in {"reparsed-compact", "reparsed-pretty"} /\ reparsed.k = "Ok"
       => KeysAscendingIn(reparsed.v)
  /\ pc = "compact" => out = serialize(ReverseInsertion(parsed.v))
  /\ pc = "pretty" => out = serialize_pretty(ReverseInsertion(parsed.v), indent)

\* An object whose keys were inserted out of order, at the top level and in
\* a nested object, has been serialized and read back.
CanonicalKeyOrderWitness ==
  /\ pc = "reparsed-compact"
  /\ reparsed.k = "Ok"
  /\ Len(parsed.v.x) >= 2
  /\ ~StrLess(parsed.v.x[1][1], parsed.v.x[2][1])
  /\ \E n \in 1..Len(parsed.v.x) :
       parsed.v.x[n][2].t = "Object" /\ ~KeysAscendingIn(parsed.v.x[n][2])

(***************************************************************************)
(* Numbers                                                                 *)
(***************************************************************************)

\* The value bound to key in the object v (the key is present).
Lookup(v, key) == v.x[CHOOSE n \in 1..Len(v.x) : v.x[n][1] = key][2]

\* The digits of a literal without its sign.
LiteralDigits(lit) == IF Head(lit) = cMinus THEN Tail(lit) ELSE lit

IsOnePairOf(keys, values) == Len(src) = 3 /\ src[1] \in keys /\ src[3] \in values

Count(s, c) == Cardinality({n \in 1..Len(s) : s[n] = c})

\* How often c is immediately followed by d in s.
CountAdjacent(s, c, d) == Cardinality({n \in 1..(Len(s) - 1) : s[n] = c /\ s[n + 1] = d})

\* The objects in v, v itself included; those without members.
RECURSIVE SumOver(_, _, _)
RECURSIVE ObjectsIn(_, _)

SumOver(vs, n, only_empty) ==
  IF n = 0 THEN 0 ELSE ObjectsIn(vs[n], only_empty) + SumOver(vs, n - 1, only_empty)

ObjectsIn(v, only_empty) ==
  CASE v.t = "Object" ->
         (IF only_empty /\ v.x # <<>> THEN 0 ELSE 1)
         + SumOver([n \in 1..Len(v.x) |-> v.x[n][2]], Len(v.x), only_empty)
    [] v.t = "Array" -> SumOver(v.x, Len(v.x), only_empty)
    [] OTHER -> 0

\* No key and no string of v holds a brace.
RECURSIVE BraceFree(_)
BraceFree(v) ==
  CASE v.t = "Object" ->
         \A n \in 1..Len(v.x) :
           /\ Count(v.x[n][1], cLBrace) + Count(v.x[n][1], cRBrace) = 0
           /\ BraceFree(v.x[n][2])
    [] v.t = "Array" -> \A n \in 1..Len(v.x) : BraceFree(v.x[n])
    [] v.t = "String" -> Count(v.x, cLBrace) + Count(v.x, cRBrace) = 0
    [] OTHER -> TRUE

\* C7: serialize gives the empty text for an empty root object and for no
\* other; the root gets no braces, every nested object (member value or
\* array element, at any depth) its own pair of braces, and every nested
\* empty object is rendered as {}.
CompactEmptyObjects ==
  pc = "compact" /\ BraceFree(parsed.v) =>
    /\ (parsed.v.x = <<>>) <=> (out = <<>>)
    /\ Count(out, cLBrace) = ObjectsIn(parsed.v, FALSE) - 1
    /\ Count(out, cRBrace) = ObjectsIn(parsed.v, FALSE) - 1
    /\ CountAdjacent(out, cLBrace, cRBrace)
         = ObjectsIn(parsed.v, TRUE) - (IF parsed.v.x = <<>> THEN 1 ELSE 0)

\* An object with an empty object as an array element has been serialized.
CompactEmptyObjectsWitness ==
  /\ pc = "compact"
  /\ Len(src) = 3
  /\ src[3] = Txt(<<"[", "1", ",", "{", "}", "]">>)
  /\ out # <<>>

(***************************************************************************)
(* Key quoting                                                             *)
(***************************************************************************)

IsAsciiLetterOrDigit(c) ==
  \/ c >= Ord("0") /\ c <= Ord("9")
  \/ c >= Ord("A") /\ c <= Ord("Z")
  \/ c >= Ord("a") /\ c <= Ord("z")

\* The output o starts with the key as it is, followed by '='.
EmittedUnquoted(o, key) ==
  /\ Len(o) > Len(key)
  /\ SubSeq(o, 1, Len(key)) = key
  /\ o[Len(key) + 1] = cEquals

\* The output o starts with the key as a double-quoted escaped string,
\* followed by '='.
EmittedQuoted(o, key) ==
  LET q == serialize_string(key) IN
  /\ Len(o) > Len(q)
  /\ SubSeq(o, 1, Len(q)) = q
  /\ o[Len(q) + 1] = cEquals

\* C8 as stated: a key is emitted unquoted if and only if it is non-empty
\* and all its characters are ASCII letters, ASCII digits, '_' or '-';
\* every other key is emitted quoted.
KeysUnquotedIffAscii ==
  pc = "compact" /\ IsOnePairOf(KeyTexts, ValueTexts) =>
    LET key == parsed.v.x[1][1]
        plain == /\ key # <<>>
                 /\ \A n \in 1..Len(key) :
                      IsAsciiLetterOrDigit(key[n]) \/ key[n] = cUnderscore \/ key[n] = cMinus
    IN /\ EmittedUnquoted(out, key) <=> plain
       /\ ~plain => EmittedQuoted(out, key)

\* C8 as amended: a key is emitted unquoted if and only if it is non-empty
\* and all its characters are alphanumeric in the Unicode sense (letters and
\* digits outside ASCII included), '_' or '-'; every other key is emitted
\* quoted.
KeysUnquotedIffAlphanumeric ==
  pc = "compact" /\ IsOnePairOf(KeyTexts, ValueTexts) =>
    LET key == parsed.v.x[1][1]
        plain == /\ key # <<>>
                 /\ \A n \in 1..Len(key) :
                      \/ IsAsciiLetterOrDigit(key[n]) \/ key[n] = Ord("e-acute")
                      \/ key[n] = cUnderscore \/ key[n] = cMinus
    IN /\ EmittedUnquoted(out, key) <=> plain
       /\ ~plain => EmittedQuoted(out, key)

\* An object with a key of a letter outside ASCII has been serialized, and
\* the key emitted as it is.
KeyQuotingWitness ==
  /\ pc = "compact"
  /\ IsOnePairOf({Txt(<<"e-acute">>)}, ValueTexts)
  /\ EmittedUnquoted(out, <<Ord("e-acute")>>)

(***************************************************************************)
(* Separators                                                              *)
(***************************************************************************)

\* The object the pairs of a document of SepDocs denote: the pieces at the
\* odd positions 1 .. n, inserted in order.
RECURSIVE ExpectedMap(_, _)
ExpectedMap(pieces, n) ==
  IF n < 1 THEN MapNew
  ELSE LET it == CHOOSE x \in SepItems : x.txt = pieces[n]
       IN MapInsert(ExpectedMap(pieces, n - 2), it.key, it.val)

ExpectedObject(pieces) == ObjectV(ExpectedMap(pieces, Len(pieces) - 1))

\* C4: pairs separated by a comma, by a newline, or by a comma and a
\* space, with or without a trailing comma, parse to the same Object: the
\* one that holds the pairs.  a=1,b=2 and a=1\nb=2 and a=1, b=2, give
\* {a: 1, b: 2}.
SeparatorFlexibility ==
  pc = "parsed" /\ src \in SepDocs =>
    /\ parsed.k = "Ok"
    /\ ValueEq(parsed.v, ExpectedObject(src))

\* a=1, b=2, has been parsed.
SeparatorFlexibilityWitness ==
  /\ pc = "parsed"
  /\ src = <<Txt(<<"a", "=", "1">>), <<cComma, cSpace>>, Txt(<<"b", "=", "2">>), <<cComma>>>>
  /\ parsed.k = "Ok"
  /\ Len(parsed.v.x) = 2

(***************************************************************************)
(* Raw strings                                                             *)
(***************************************************************************)

\* The quote at position p (1-based) of the tail is followed by at least
\* n hashes.
FencedAtLeast(tail, p, n) ==
  /\ tail[p] = cDQuote
  /\ p + n <= Len(tail)
  /\ \A j \in 1..n : tail[p + j] = cHash

\* The quote at position p of the tail is followed by exactly n hashes.
FencedExactly(tail, p, n) ==
  /\ FencedAtLeast(tail, p, n)
  /\ (p + n = Len(tail) \/ tail[p + n + 1] # cHash)

\* The document x = the string s.
XIs(s) == ObjectV(<<<<Txt(<<"x">>), StringV(s)>>>>)

\* C6 as stated: the raw string is closed only by a quote followed by
\* exactly N hashes.  So when the first such quote is at p and the text ends
\* after its hashes, the value of x is the tail before p, whatever quotes
\* with fewer or with more hashes come before.
RawClosedByExactFence ==
  pc = "parsed" /\ src \in RawDocs =>
    LET n == Len(src[2])
        tail == src[4] IN
    \A p \in 1..Len(tail) :
      /\ FencedExactly(tail, p, n)
      /\ \A q \in 1..(p - 1) : ~FencedExactly(tail, q, n)
      /\ p + n = Len(tail)
      => parsed.k = "Ok" /\ parsed.v = XIs(SubSeq(tail, 1, p - 1))

\* C6 as amended: the raw string is closed by the first quote that is
\* followed by at least N hashes; a quote followed by fewer does not close
\* it.  The content is the text between the opening quote and that quote.
\* A hash after the N hashes of the closing quote is not part of the
\* string, and parse rejects it; without such a quote parse reports the
\* unterminated raw string.
RawClosedByFirstFence ==
  pc = "parsed" /\ src \in RawDocs =>
    LET n == Len(src[2])
        tail == src[4] IN
    /\ \A p \in 1..Len(tail) :
         /\ FencedAtLeast(tail, p, n)
         /\ \A q \in 1..(p - 1) : ~FencedAtLeast(tail, q, n)
         => /\ p + n = Len(tail)
                => parsed.k = "Ok" /\ parsed.v = XIs(SubSeq(tail, 1, p - 1))
            /\ p + n < Len(tail) /\ tail[p + n + 1] = cHash
                => parsed.k = "Err" /\ parsed.e = "Empty key"
    /\ (\A p \in 1..Len(tail) : ~FencedAtLeast(tail, p, n))
         => parsed.k = "Err" /\ parsed.e = "Unterminated raw string"

\* x=r#"a"a"# has been parsed: the first quote of the content is followed
\* by fewer hashes than the string was opened with.
RawClosedByFirstFenceWitness ==
  /\ pc = "parsed"
  /\ src = <<Txt(<<"x", "=", "r">>), <<cHash>>, <<cDQuote>>, Txt(<<"a", "\"", "a", "\"", "#">>)>>
  /\ parsed.k = "Ok"
  /\ parsed.v = XIs(Txt(<<"a", "\"", "a">>))

(***************************************************************************)
(* Errors                                                                  *)
(***************************************************************************)

IsKeyChar(c) == is_alphanumeric(c) \/ c = cUnderscore \/ c = cMinus

\* In a document <<prefix, key, white space, rest>> the key is a key of
\* the bare object or of a nested object, and what follows it and the
\* white space is the end of input or a character other than '='.
KeyWithoutEquals ==
  /\ src \in EqDocs
  /\ src[4] # <<>> =>
       /\ Head(src[4]) # cEquals
       \* an unquoted key extends over the key characters that follow it
       /\ (src[3] = <<>> /\ IsKeyChar(Head(src[2]))) => ~IsKeyChar(Head(src[4]))
  \* a text that opens with '{' is a nested object when it ends with '}'
  /\ src[1] = <<cLBrace>> => src[4] # <<>> /\ Last(src[4]) = cRBrace

\* C9: when a key of the bare object or of a nested object is followed,
\* after optional white space, by the end of input or by a character other
\* than '=', parse returns the error "Expected '='" and no value.
MissingEqualsIsReported ==
  pc = "parsed" /\ KeyWithoutEquals =>
    /\ parsed.k = "Err"
    /\ parsed.e \in {"Expected '=' after key", "Expected '=' after key in nested object"}

\* x={a } has been parsed: a key of a nested object, a space, no '='.
MissingEqualsWitness ==
  /\ pc = "parsed"
  /\ src = <<Txt(<<"x", "=", "{">>), Txt(<<"a">>), <<cSpace>>, Txt(<<"}">>)>>
  /\ KeyWithoutEquals
  /\ parsed.e = "Expected '=' after key in nested object"

\* The piece of a document of FailDocs is malformed.
Malformed ==
  /\ src \in FailDocs
  /\ \/ <<src[1], src[3]>> \in ValueContexts /\ src[2] \in BadValues
     \/ <<src[1], src[3]>> \in KeyContexts /\ src[2] \in BadKeys
     \/ <<src[1], src[3]>> \in EqualsContexts /\ src[2] \in BadEquals

\* C10: when a key, an '=' or a value fails to parse, at the top level or
\* inside a nested array or object, parse returns an error, never an Ok
\* value of the pairs or elements read before it.
FailFast == pc = "parsed" /\ Malformed => parsed.k = "Err"

\* The documents of FailDocs are well formed but for the malformed piece.
FailDocsWellFormed == pc = "parsed" /\ src \in FailDocs /\ ~Malformed => parsed.k = "Ok"

\* A document that opens with a=1,b=@ has been parsed: a well-formed pair
\* precedes the malformed value.
FailFastWitness ==
  /\ pc = "parsed"
  /\ Malformed
  /\ src[1] = Txt(<<"a", "=", "1", ",", "b", "=">>)
  /\ src[2] = Txt(<<"@">>)
  /\ parsed.k = "Err"

\* The piece of a document of UnclosedDocs is opened and not closed.
Unclosed ==
  /\ src \in UnclosedDocs
  /\ \/ <<src[1], src[3]>> \in OpenValueContexts /\ src[2] \in UnclosedValues
     \/ <<src[1], src[3]>> \in OpenKeyContexts /\ src[2] \in UnclosedKeys

\* The prefix of the document is a whole brace-wrapped object, so that the
\* piece comes after its closing brace.
AfterClosingBrace == src[1] = Txt(<<"{", "a", "=", "1", "}", "x", "=">>)

\* C11: an input with a quoted string (value or key), a raw string, an
\* array or a nested object that is opened and not closed makes parse
\* return an error, on the bare path and on the brace-wrapped path.
UnclosedIsError == pc = "parsed" /\ Unclosed => parsed.k = "Err"

\* What holds of the code: the unclosed construct is an error wherever the
\* parser reads it; after the closing brace of a brace-wrapped object
\* nothing is read, and parse returns that object.
UnclosedIsErrorWhereRead ==
  pc = "parsed" /\ Unclosed =>
    IF AfterClosingBrace
      THEN parsed = Ok(ObjectV(<<<<Txt(<<"a">>), NumberV("float", FALSE, Txt(<<"1">>), <<>>)>>>>))
      ELSE parsed.k = "Err"

(***************************************************************************)
(* Duplicate keys                                                          *)
(***************************************************************************)

\* The pair at position n of a document of DupDocs (the pairs are at the
\* even positions).
DupItemAt(n) == CHOOSE it \in DupItems : it.txt = src[n]

DupPositions == {n \in 2..(Len(src) - 1) : n % 2 = 0}

\* The object the pairs of a document of DupDocs are read into: the root,
\* or the value of x.
DupObject == IF src[1] = Txt(<<"x", "=", "{">>) THEN parsed.v.x[1][2] ELSE parsed.v

\* C12: when a key occurs more than once in an object, bare or nested, the
\* parsed Object holds it exactly once, with the value of its last
\* occurrence; it holds the keys of the input and no other.
DuplicateKeysLastWins ==
  pc = "parsed" /\ src \in DupDocs =>
    /\ parsed.k = "Ok"
    /\ DupObject.t = "Object"
    /\ \A n \in DupPositions :
         LET key == DupItemAt(n).key
             last == CHOOSE l \in DupPositions :
                       /\ DupItemAt(l).key = key
                       /\ \A l2 \in DupPositions : DupItemAt(l2).key = key => l2 <= l
             held == {j \in 1..Len(DupObject.x) : DupObject.x[j][1] = key}
         IN /\ Cardinality(held) = 1
            /\ \A j \in held : DupObject.x[j][2] = DupItemAt(last).val
    /\ \A j \in 1..Len(DupObject.x) :
         \E n \in DupPositions : DupItemAt(n).key = DupObject.x[j][1]

\* x={a=1,b=4,"a"=true} has been parsed: the key a occurs twice in a nested
\* object, the second time quoted, with another key in between.
DuplicateKeysWitness ==
  /\ pc = "parsed"
  /\ src = <<Txt(<<"x", "=", "{">>), Txt(<<"a", "=", "1">>), <<cComma>>, Txt(<<"b", "=", "4">>),
             <<cComma>>, Txt(<<"\"", "a", "\"", "=", "t", "r", "u", "e">>), Txt(<<"}">>)>>
  /\ parsed.k = "Ok"
  /\ Len(DupObject.x) = 2

(***************************************************************************)
(* Comments                                                                *)
(***************************************************************************)

\* C13: remove_comments(remove_comments(t)) = remove_comments(t) for every
\* text t, texts with adjacent comments, with slashes and stars next to
\* comments and with an unterminated block comment among them.
RemoveCommentsIdempotent == pc = "restripped" => restripped = stripped

\* /**//* has been stripped twice: a block comment followed by an
\* unterminated one, of which the opener is kept.
RemoveCommentsIdempotentWitness ==
  /\ pc = "restripped"
  /\ text = Txt(<<"/", "*", "*", "/", "/", "*">>)
  /\ stripped = Txt(<<"/", "*">>)

(***************************************************************************)
(* White space and separators                                              *)
(***************************************************************************)

\* C14: spaces or tabs between a value and the comma that follows it are
\* accepted in bare objects, nested objects and arrays: the document parses
\* to the value of the document without them (a=1 , b=2 as a=1, b=2 and
\* x=[1 , 2] as x=[1, 2]).
SpaceBeforeCommaSkipped ==
  pc = "parsed" /\ src \in CommaDocs =>
    /\ parsed.k = "Ok"
    /\ parsed = parse(src[1] \o src[2] \o src[4] \o src[5])

\* What the code does: with a space or tab before the comma, the comma is
\* read as the start of a key or of a value, and parse returns an error.
SpaceBeforeCommaRejected ==
  pc = "parsed" /\ src \in CommaDocs =>
    IF src[3] = <<>> THEN parsed.k = "Ok"
    ELSE /\ parsed.k = "Err"
         /\ parsed.e = IF src[1] = Txt(<<"x", "=", "[">>)
                         THEN "Unexpected character in value"
                         ELSE "Empty key"

\* C15: in an array and in a nested object any mixture of commas,
\* newlines, spaces and tabs between the last element or pair and the
\* closing bracket is accepted, and the value is that of the input without
\* them.
TrailingSeparatorsIgnored ==
  pc = "parsed" /\ src \in TrailDocs =>
    /\ parsed.k = "Ok"
    /\ parsed = parse(src[1] \o src[3])

\* What the code does: the mixture is accepted when no comma or newline
\* comes after a space or tab, and is an error otherwise.
TrailingSeparatorsInOrder ==
  pc = "parsed" /\ src \in TrailDocs =>
    LET trail == src[2]
        ordered == \A m, n \in 1..Len(trail) :
                     m < n /\ trail[m] \in {cSpace, cTab} => trail[n] \in {cSpace, cTab}
    IN IF ordered THEN parsed = parse(src[1] \o src[3]) /\ parsed.k = "Ok"
       ELSE parsed.k = "Err"

(***************************************************************************)
(* Numeric literals                                                        *)
(***************************************************************************)

\* The document with the literal l in the place of the literal of src.
WithLiteral(l) == src[1] \o l \o src[3]

\* C16: underscores in the digit run of a literal are accepted and
\* discarded: n=1_000 parses to what n=1000 parses to.
UnderscoresDiscarded ==
  pc = "parsed" /\ src \in NumberDocs =>
    \A l \in UnderscoreLiterals :
      src[2] = l.txt => parsed.k = "Ok" /\ parsed = parse(WithLiteral(l.plain))

\* C17: a literal with an exponent is accepted and stored as the float of
\* its value: x=1e5 parses to what x=100000 parses to, x=2E-3 to what
\* x=0.002 parses to.
ExponentsAccepted ==
  pc = "parsed" /\ src \in NumberDocs =>
    \A l \in ExponentLiterals :
      src[2] = l.txt => parsed.k = "Ok" /\ parsed = parse(WithLiteral(l.plain))

\* What the code does: parse_number stops at the underscore or at the
\* exponent marker, and what follows is read as the next key or element:
\* parse returns an error.  The literals without them are accepted.
NumberStopsAtUnderscoreAndExponent ==
  pc = "parsed" /\ src \in NumberDocs =>
    IF \E l \in UnderscoreLiterals \cup ExponentLiterals : src[2] = l.txt
      THEN /\ parsed.k = "Err"
           /\ parsed.e = IF src[1] = Txt(<<"x", "=", "[">>) THEN "Unexpected character in value"
                         ELSE IF src[1] = Txt(<<"n", "=">>) THEN "Expected '=' after key"
                         ELSE "Expected '=' after key in nested object"
      ELSE parsed.k = "Ok"

(***************************************************************************)
(* Unicode escapes                                                         *)
(***************************************************************************)

\* The hexadecimal digits, by value.
HexDigits == Txt(<<"0", "1", "2", "3", "4", "5", "6", "7", "8", "9",
                   "a", "b", "c", "d", "e", "f">>)
HexDigitsUpper == Txt(<<"0", "1", "2", "3", "4", "5", "6", "7", "8", "9",
                        "A", "B", "C", "D", "E", "F">>)

IsHexDigit(c) == \E n \in 1..16 : HexDigits[n] = c \/ HexDigitsUpper[n] = c

DigitValue(c) == (CHOOSE n \in 1..16 : HexDigits[n] = c \/ HexDigitsUpper[n] = c) - 1

\* The number a text of hexadecimal digits denotes.
RECURSIVE HexNumber(_)
HexNumber(ds) ==
  IF ds = <<>> THEN 0 ELSE 16 * HexNumber(SubSeq(ds, 1, Len(ds) - 1)) + DigitValue(Last(ds))

AllHex(ds) == \A n \in 1..Len(ds) : IsHexDigit(ds[n])

IsSurrogate(code) == code >= 55296 /\ code <= 57343

\* The text the escape of a document of EscapeDocs is decoded into: the
\* key, or the value of x.
EscapeDecoded == IF Head(src[1]) = cDQuote THEN parsed.v.x[1][1] ELSE parsed.v.x[1][2].x

\* C18 as stated: \u is accepted only with four hexadecimal digits that name
\* a scalar value, and yields that character; with any other four
\* characters (a sign among them, a surrogate) and with fewer than four
\* characters left parse returns an error.
UnicodeEscapeOnlyHex ==
  pc = "parsed" /\ src \in EscapeDocs =>
    LET body == src[2] IN
    IF Len(body) = EscapeLen /\ AllHex(body) /\ ~IsSurrogate(HexNumber(body))
      THEN src[3] # <<>> => parsed.k = "Ok" /\ EscapeDecoded = <<HexNumber(body)>>
      ELSE parsed.k = "Err"

\* What the code does: a '+' followed by three hexadecimal digits is
\* accepted as well, and yields the character of the three digits.
UnicodeEscapeHexOrPlus ==
  pc = "parsed" /\ src \in EscapeDocs =>
    LET body == src[2]
        digits == IF body # <<>> /\ Head(body) = cPlus THEN Tail(body) ELSE body IN
    IF Len(body) = EscapeLen /\ AllHex(digits) /\ ~IsSurrogate(HexNumber(digits))
      THEN src[3] # <<>> => parsed.k = "Ok" /\ EscapeDecoded = <<HexNumber(digits)>>
      ELSE parsed.k = "Err"

(***************************************************************************)
(* Whole floats                                                            *)
(***************************************************************************)

\* The digits of the value of the literal of a document of WholeDocs.
WholeDigits == (CHOOSE l \in WholeLiterals : l.txt = src[2]).digits

\* C19: a float without fraction, whatever its magnitude, is written by
\* serialize and by serialize_pretty as the decimal digits of its value,
\* without decimal point and exponent, and parsing the output gives the
\* same number.
WholeFloatsRenderExactly ==
  src \in WholeDocs =>
    /\ pc = "compact" => out = Txt(<<"n", "=">>) \o WholeDigits
    /\ pc = "pretty" => out = Txt(<<"n", " ", "=", " ">>) \o WholeDigits
    /\ pc \in {"reparsed-compact", "reparsed-pretty"} =>
         reparsed.k = "Ok" /\ ValueEq(reparsed.v, parsed.v)

\* What the code does: a float of magnitude 2^63 or more is written as
\* i64::MAX or i64::MIN, which is another number; below, the digits are
\* those of the value.
WholeFloatsSaturate ==
  src \in WholeDocs /\ pc \in {"compact", "pretty"} =>
    LET digits == IF Head(WholeDigits) = cMinus THEN Tail(WholeDigits) ELSE WholeDigits
        written == IF DigitsGE(digits, TwoPow63)
                     THEN IF Head(WholeDigits) = cMinus THEN <<cMinus>> \o TwoPow63 ELSE I64Max
                     ELSE WholeDigits
    IN out = (IF pc = "compact" THEN Txt(<<"n", "=">>) ELSE Txt(<<"n", " ", "=", " ">>))
             \o written

(***************************************************************************)
(* Indentation of nested structures in serialize_pretty's output           *)
(***************************************************************************)

\* The lines of a text, split at the newlines.
RECURSIVE SplitLines(_, _, _)
SplitLines(chars, i, line) ==
  IF i >= Len(chars) THEN <<line>>
  ELSE IF At(chars, i) = cNewline
    THEN <<line>> \o SplitLines(chars, i + 1, <<>>)
  ELSE SplitLines(chars, i + 1, Append(line, At(chars, i)))

\* The number of spaces and tabs a line starts with.
RECURSIVE LeadingBlanks(_)
LeadingBlanks(line) ==
  IF line # <<>> /\ Head(line) \in {cSpace, cTab}
    THEN 1 + LeadingBlanks(Tail(line))
  ELSE 0

\* The line ends with an opening bracket: it opens a structure.
OpensStructure(line) == line # <<>> /\ Last(line) \in {cLBrace, cLBracket}

\* The line holds a closing bracket (and the comma after it, if any).
ClosesStructure(line) ==
  LeadingBlanks(line) < Len(line)
  /\ line[LeadingBlanks(line) + 1] \in {cRBrace, cRBracket}

\* opened: the indentations of the lines that opened the structures not yet
\* closed, the innermost last.  unit: the length of the indent unit.
RECURSIVE LinesIndented(_, _, _, _)
LinesIndented(lines, n, opened, unit) ==
  IF n > Len(lines) THEN opened = <<>>
  ELSE IF ClosesStructure(lines[n])
    THEN /\ opened # <<>>
         /\ LeadingBlanks(lines[n]) = Last(opened)
         /\ LinesIndented(lines, n + 1, SubSeq(opened, 1, Len(opened) - 1), unit)
  ELSE /\ LeadingBlanks(lines[n]) = (IF opened = <<>> THEN 0 ELSE Last(opened) + unit)
       /\ LinesIndented(lines, n + 1,
                        IF OpensStructure(lines[n])
                          THEN Append(opened, LeadingBlanks(lines[n]))
                        ELSE opened,
                        unit)

\* C20: in the output of serialize_pretty(v, indent) every member line of a
\* nested object or array, at every position and also under a root array, is
\* indented by exactly one indent unit more than the line that opens the
\* structure, and the line of the closing bracket is indented as the line
\* that opens it.
PrettyNestingIndented ==
  pc = "pretty" => LinesIndented(SplitLines(out, 0, <<>>), 1, <<>>, Len(indent))

\* The positions where serialize_pretty_with_depth is called with the depth
\* the lines are written at: an array element of the root array is no array,
\* and no member of an object that is an array element is an object or array.
IsContainer(v) == v.t \in {"Object", "Array"}

RECURSIVE DepthTracked(_)
DepthTracked(v) ==
  CASE v.t = "Object" -> \A n \in 1..Len(v.x) : DepthTracked(v.x[n][2])
    [] v.t = "Array" ->
         \A n \in 1..Len(v.x) :
           IF v.x[n].t = "Object"
             THEN \A m \in 1..Len(v.x[n].x) : ~IsContainer(v.x[n].x[m][2])
           ELSE DepthTracked(v.x[n])
    [] OTHER -> TRUE

RootDepthTracked(v) ==
  /\ DepthTracked(v)
  /\ v.t = "Array" => \A n \in 1..Len(v.x) : v.x[n].t # "Array"

\* What holds instead: the lines are indented as C20 says exactly when the
\* indent unit is empty or every nested structure is at such a position.
PrettyNestingIndentedWhereTracked ==
  pc = "pretty" =>
    (LinesIndented(SplitLines(out, 0, <<>>), 1, <<>>, Len(indent))
       <=> (indent = <<>> \/ RootDepthTracked(parsed.v)))


(***************************************************************************)
(* The top-level form of serialize_pretty's output                         *)
(***************************************************************************)

\* No member of the object is an object or an array.
AllScalars(v) == \A n \in 1..Len(v.x) : ~IsContainer(v.x[n][2])

\* key = value, the value written as serialize_pretty writes it one level
\* below the root with the unit ind.
RootPairText(pair, ind) ==
  serialize_key(pair[1]) \o <<cSpace, cEquals, cSpace>>
  \o serialize_pretty_with_depth(pair[2], ind, 1, FALSE)

\* key = value, the value a scalar written as serialize writes it.
ScalarPairText(pair) ==
  serialize_key(pair[1]) \o <<cSpace, cEquals, cSpace>> \o serialize(pair[2])

RootPairTexts(v, ind) ==
  [n \in 1..Len(v.x) |-> RootPairText(SortedByKey(v.x)[n], ind)]

ScalarPairTexts(v) ==
  [n \in 1..Len(v.x) |-> ScalarPairText(SortedByKey(v.x)[n])]

\* C21: for a non-empty root object serialize_pretty writes no outer braces
\* and no indentation before a root pair: the output is the pairs
\* `key = value` in key order joined by a comma and a newline; when all the
\* values are scalars it is one line per pair, none starting with a blank,
\* and the same for every indent unit.
PrettyTopLevelForm ==
  pc = "pretty" /\ parsed.v.t = "Object" /\ parsed.v.x # <<>> =>
    /\ out = Join(RootPairTexts(parsed.v, indent), <<cComma, cNewline>>)
    /\ Head(out) \notin {cLBrace, cSpace, cTab}
    /\ AllScalars(parsed.v) =>
         /\ out = Join(ScalarPairTexts(parsed.v), <<cComma, cNewline>>)
         /\ Len(SplitLines(out, 0, <<>>)) = Len(parsed.v.x)
         /\ \A n \in 1..Len(parsed.v.x) : LeadingBlanks(SplitLines(out, 0, <<>>)[n]) = 0

\* b=1,a="s" written with a tab as the unit: two lines, no tab.
PrettyTopLevelFormWitness ==
  /\ pc = "pretty"
  /\ indent = <<cTab>>
  /\ src = <<Txt(<<"b", "=", "1">>), <<cComma>>, Txt(<<"a", "=", "\"", "s", "\"">>)>>
  /\ out = Txt(<<"a", " ", "=", " ", "\"", "s", "\"", ",", "\n", "b", " ", "=", " ", "1">>)


(***************************************************************************)
(* Unterminated block comments                                             *)
(***************************************************************************)

\* At position i (from 0) of t a block comment opens that no "*/" ends.
OpensUnterminated(t, i) ==
  /\ i + 1 < Len(t)
  /\ At(t, i) = cSlash
  /\ At(t, i + 1) = cStar
  /\ \A j \in (i + 2)..(Len(t) - 2) : ~(At(t, j) = cStar /\ At(t, j + 1) = cSlash)

\* The text before position i holds no slash, so no comment starts there.
NoSlashBefore(t, i) == \A j \in 0..(i - 1) : At(t, j) # cSlash

\* C22: when a block comment opened after comment-free text has no "*/"
\* before the end of input, remove_comments keeps the opener and the text
\* after it: nothing is discarded.
UnterminatedBlockKeepsText ==
  pc = "stripped" =>
    \A i \in 0..(Len(text) - 1) :
      NoSlashBefore(text, i) /\ OpensUnterminated(text, i) => stripped = text

\* What holds instead: the result ends with the opener; the text after it
\* is gone.
UnterminatedBlockKeepsOpenerOnly ==
  pc = "stripped" =>
    \A i \in 0..(Len(text) - 1) :
      NoSlashBefore(text, i) /\ OpensUnterminated(text, i) =>
        stripped = Slice(text, 0, i + 2)


(***************************************************************************)
(* Empty input                                                             *)
(***************************************************************************)

\* C23: for every input that holds nothing but white space and comments
\* (the empty string included) parse succeeds and returns an Object with no
\* keys.
EmptyInputIsEmptyObject ==
  src \in BlankDocs /\ pc = "parsed" => parsed = Ok(ObjectV(<<>>))

\* A space, a line comment, an empty block comment and a line comment
\* without newline.
EmptyInputIsEmptyObjectWitness ==
  /\ pc = "parsed"
  /\ src = <<<<cSpace>>, Txt(<<"/", "/", "a", "\n">>), Txt(<<"/", "*", "*", "/">>),
             Txt(<<"/", "/", "a">>)>>
  /\ parsed = Ok(ObjectV(<<>>))


(***************************************************************************)
(* Pretty and compact output                                               *)
(***************************************************************************)

\* The text without the spaces, tabs and newlines outside its string
\* literals.  A literal is as serialize_string writes it: from a '"' to the
\* next '"' that no backslash escapes.
RECURSIVE Squeeze(_, _, _)
Squeeze(chars, i, in_string) ==
  IF i >= Len(chars) THEN <<>>
  ELSE IF in_string
    THEN IF At(chars, i) = cBackslash /\ i + 1 < Len(chars)
           THEN <<cBackslash, At(chars, i + 1)>> \o Squeeze(chars, i + 2, TRUE)
         ELSE <<At(chars, i)>> \o Squeeze(chars, i + 1, At(chars, i) # cDQuote)
  ELSE IF At(chars, i) \in {cSpace, cTab, cNewline}
    THEN Squeeze(chars, i + 1, FALSE)
  ELSE <<At(chars, i)>> \o Squeeze(chars, i + 1, At(chars, i) = cDQuote)

\* An object without members is a member of an object or an element of an
\* array of v.
RECURSIVE HasNestedEmptyObject(_)
HasNestedEmptyObject(v) ==
  CASE v.t = "Object" ->
         \E n \in 1..Len(v.x) :
           v.x[n][2] = ObjectV(<<>>) \/ HasNestedEmptyObject(v.x[n][2])
    [] v.t = "Array" ->
         \E n \in 1..Len(v.x) : v.x[n] = ObjectV(<<>>) \/ HasNestedEmptyObject(v.x[n])
    [] OTHER -> FALSE

\* C24: the output of serialize_pretty(v, indent) without the spaces, tabs
\* and newlines outside string literals is the output of serialize(v), for
\* every indent unit; a nested empty object is `{}` in both.
PrettySqueezedIsCompact ==
  pc = "pretty" => Squeeze(out, 0, FALSE) = serialize(parsed.v)

\* What holds instead: the two agree exactly for the values without a nested
\* empty object.
PrettySqueezedIsCompactUnlessEmptyNested ==
  pc = "pretty" =>
    (Squeeze(out, 0, FALSE) = serialize(parsed.v) <=> ~HasNestedEmptyObject(parsed.v))


(***************************************************************************)
(* Numbers are floats                                                      *)
(***************************************************************************)

\* The Number serde_json builds from the f64 a literal of FloatLiterals
\* denotes.
FloatValueOf(txt) ==
  LET l == CHOOSE l \in FloatLiterals : l.txt = txt IN
  NumberV("float", l.neg, l.ip, l.fp)

\* The value a document of FloatDocs denotes when its literal is read as an
\* f64.
FloatDocValue(doc) ==
  IF doc[1] = Txt(<<"i", "n", "t", "=">>)
    THEN ObjectV(<<<<Txt(<<"i", "n", "t">>), FloatValueOf(doc[2])>>>>)
  ELSE IF doc[3] = Txt(<<"]">>)
    THEN ObjectV(<<<<Txt(<<"n", "u", "m", "b", "e", "r", "s">>),
                     ArrayV(<<NumberV("float", FALSE, Txt(<<"1">>), <<>>),
                              FloatValueOf(doc[2])>>)>>>>)
  ELSE ObjectV(<<<<Txt(<<"o">>), ObjectV(<<<<Txt(<<"n">>), FloatValueOf(doc[2])>>>>)>>>>)

\* C25: parse stores every numeric literal it accepts, with a decimal point
\* or without, as a 64-bit float Number of the literal's value: int=42
\* gives the value built from 42.0, a literal -123 the one from -123.0.
NumbersParsedAsFloats ==
  src \in FloatDocs /\ pc = "parsed" =>
    parsed.k = "Ok" /\ parsed.v = FloatDocValue(src)

\* int=42 has been parsed to {int: 42.0}.
NumbersParsedAsFloatsWitness ==
  /\ pc = "parsed"
  /\ src = <<Txt(<<"i", "n", "t", "=">>), Txt(<<"4", "2">>), <<>>>>
  /\ parsed = Ok(ObjectV(<<<<Txt(<<"i", "n", "t">>),
                           NumberV("float", FALSE, Txt(<<"4", "2">>), <<>>)>>>>))


(***************************************************************************)
(* Pairs and elements separated by spaces                                  *)
(***************************************************************************)

\* The number of items of a document of SpaceDocs.
SpaceItemCount(doc) == (Len(doc) - 1) \div 2

\* The Value the n-th item of the document denotes.
SpaceItemValue(doc, n) ==
  LET written == doc[2 * n]
      literal == IF doc[Len(doc)] = Txt(<<"]">>) THEN written
                 ELSE Slice(written, 2, Len(written)) IN
  (CHOOSE it \in SpaceItems : it.txt = literal).val

\* The object with the n-th item under the n-th key.
SpacePairsValue(doc) ==
  ObjectV([n \in 1..SpaceItemCount(doc) |-> <<SpaceKeys[n], SpaceItemValue(doc, n)>>])

\* The value the document denotes when every item counts.
SpaceDocValue(doc) ==
  IF doc[Len(doc)] = Txt(<<"]">>)
    THEN ObjectV(<<<<Txt(<<"a", "r", "r">>),
                     ArrayV([n \in 1..SpaceItemCount(doc) |-> SpaceItemValue(doc, n)])>>>>)
  ELSE IF doc[Len(doc)] = Txt(<<"}">>)
    THEN ObjectV(<<<<Txt(<<"o">>), SpacePairsValue(doc)>>>>)
  ELSE SpacePairsValue(doc)

UnknownEscapeKept(doc) == doc[3] \o doc[4] \o doc[5] \o doc[6]

\* The value the document denotes then.
UnknownEscapeDocValue(doc) ==
  IF doc[8] = Txt(<<"=", "1">>)
    THEN ObjectV(<<<<UnknownEscapeKept(doc), NumberV("float", FALSE, Txt(<<"1">>), <<>>)>>>>)
  ELSE IF doc[8] = Txt(<<"]">>)
    THEN ObjectV(<<<<Txt(<<"x">>), ArrayV(<<StringV(UnknownEscapeKept(doc))>>)>>>>)
  ELSE ObjectV(<<<<Txt(<<"x">>), StringV(UnknownEscapeKept(doc))>>>>)

\* C27: in a quoted string and in a quoted key a backslash before a
\* character that is none of n, r, t, b, f, backslash, a quote and u is no
\* error, and the backslash and the character are both part of the result.
UnknownEscapesKept ==
  src \in UnknownEscapeDocs /\ pc = "parsed" =>
    parsed.k = "Ok" /\ parsed.v = UnknownEscapeDocValue(src)

\* x="a\qa" has been parsed to the string a\qa of four characters.
UnknownEscapesKeptWitness ==
  /\ pc = "parsed"
  /\ text = Txt(<<"x", "=", "\"", "a", "\\", "q", "a", "\"">>)
  /\ parsed = Ok(ObjectV(<<<<Txt(<<"x">>), StringV(Txt(<<"a", "\\", "q", "a">>))>>>>))


(***************************************************************************)
(* Text after the value                                                    *)
(***************************************************************************)

\* The position the grammar has read the trimmed input up to when parse
\* returns Ok: the end position parse_nested_object returns on the
\* brace-wrapped path; the loop of parse_jhon_object ends at the end of the
\* input.
ConsumedUpTo(input) ==
  IF input # <<>> /\ Head(input) = cLBrace /\ Last(input) = cRBrace
    THEN parse_nested_object(input, 0).i
    ELSE Len(input)

\* C28: when parse returns Ok the grammar has consumed the comment-stripped,
\* trimmed input to its last character; the brace-wrapped object of a text
\* from '{' to '}' ends at the last character, and no text after its
\* matching '}' is dropped.
AcceptsNoTrailingText ==
  src \in BracedDocs /\ pc = "parsed" /\ parsed.k = "Ok" =>
    ConsumedUpTo(Trim(remove_comments(text))) = Len(Trim(remove_comments(text)))

\* What holds instead: whatever follows the closing brace of the object, a
\* text that ends with '}' gives that object; any other rest is an error.
TextAfterMatchingBraceDropped ==
  src \in BracedDocs /\ pc = "parsed" =>
    IF src[2] = <<>> \/ Last(src[2]) = cRBrace
      THEN parsed = Ok((CHOOSE h \in BracedHeads : h.txt = src[1]).val)
      ELSE parsed.k = "Err"


(***************************************************************************)
(* No panic                                                                *)
(***************************************************************************)

\* C29: parse returns Ok or Err for every input: the assertions at the entry
\* of parse_string_value, parse_raw_string_value, parse_array and
\* parse_nested_object hold where the routines are called, and the
\* look-ahead after a quote of a raw string, after \u and of true, false
\* and null stays within the characters.
ParseNeverPanics ==
  /\ pc \in {"parsed", "compact", "pretty"} => parsed.k \in {"Ok", "Err"}
  /\ pc \in {"reparsed-compact", "reparsed-pretty"} => reparsed.k \in {"Ok", "Err"}

\* x=nul: the look-ahead of parse_null meets the end of input and parse
\* returns an error.
ParseNeverPanicsWitness ==
  /\ pc = "parsed"
  /\ text = Txt(<<"x", "=", "n", "u", "l">>)
  /\ parsed.k = "Err"


(***************************************************************************)
(* Progress of the parser                                                  *)
(***************************************************************************)

\* A call that was given position i failed or returned a position after i
\* and not after the end of the input.
Advances(chars, i, r) == r.k = "Ok" => i < r.i /\ r.i <= Len(chars)

\* C30: parse terminates: wherever in the input they are called, parse_key
\* and parse_value fail or return a position after the one they were given
\* and at most the length of the input, so that every iteration of the loops
\* of parse_jhon_object, parse_array and parse_nested_object returns, fails
\* or advances; parse reaches Ok or Err.
ParserAdvances ==
  pc = "parsed" =>
    /\ parsed.k \in {"Ok", "Err"}
    /\ \A i \in 0..(Len(text) - 1) :
         /\ Advances(text, i, parse_key(text, i))
         /\ Advances(text, i, parse_value(text, i))

\* In name="John",age=30 the value at position 5 ends at position 11 and
\* the key at position 12 at position 15.
ParserAdvancesWitness ==
  /\ pc = "parsed"
  /\ src = ExampleDoc
  /\ parsed.k = "Ok"
  /\ parse_value(text, 5).k = "Ok" /\ parse_value(text, 5).i = 11
  /\ parse_key(text, 12).k = "Ok" /\ parse_key(text, 12).i = 15


====
